---- MODULE Spec2Model ----
(***************************************************************************)
(* A model of datefixer's set-dates flow: candidate collection             *)
(* (date_mapper.gather_candidates), the interactive chooser                *)
(* (date_mapper.interactive_choose), the batch loop                        *)
(* (set_dates.cmd_set_dates) and the destination writers.                  *)
(*                                                                         *)
(* Python strings that the code inspects character by character are        *)
(* sequences of one-character strings; a metadata value is a record        *)
(* [t, s] with t = "str" for a string and t = "list" for a JSON list.      *)
(***************************************************************************)
EXTENDS Integers, Sequences, FiniteSets, TLC

\* Python's None.
None == [t |-> "None"]

\* ------------------------------------------------------------------------
\* Characters and strings
\* ------------------------------------------------------------------------

Digits == <<"0", "1", "2", "3", "4", "5", "6", "7", "8", "9">>

\* An ASCII decimal digit: what \d matches in the inputs modelled here and
\* what int() accepts.
IsDecimal(c) == \E k \in 1..10 : Digits[k] = c

DigitVal(c) == (CHOOSE k \in 1..10 : Digits[k] = c) - 1

\* "sup2" stands for the one character U+00B2 (superscript two): str.isdigit()
\* is true of it, int() rejects it.
IsDigitChar(c) == IsDecimal(c) \/ c = "sup2"

IsSpace(c) == c \in {" ", "\t"}

RECURSIVE ToInt(_)
ToInt(s) ==
  IF s = <<>> THEN 0
  ELSE 10 * ToInt(SubSeq(s, 1, Len(s) - 1)) + DigitVal(s[Len(s)])

RECURSIVE LStrip(_)
LStrip(s) == IF s # <<>> /\ IsSpace(s[1]) THEN LStrip(Tail(s)) ELSE s

RECURSIVE RStrip(_)
RStrip(s) ==
  IF s # <<>> /\ IsSpace(s[Len(s)]) THEN RStrip(SubSeq(s, 1, Len(s) - 1)) ELSE s

\* str.strip()
Strip(s) == RStrip(LStrip(s))

Upper ==
  <<"A", "B", "C", "D", "E", "F", "G", "H", "I", "J", "K", "L", "M", "N", "O", "P",
    "Q", "R", "S", "T", "U", "V", "W", "X", "Y", "Z">>

Lowers ==
  <<"a", "b", "c", "d", "e", "f", "g", "h", "i", "j", "k", "l", "m", "n", "o", "p",
    "q", "r", "s", "t", "u", "v", "w", "x", "y", "z">>

LowerChar(c) ==
  IF \E k \in 1..26 : Upper[k] = c
  THEN Lowers[CHOOSE k \in 1..26 : Upper[k] = c]
  ELSE c

\* str.lower()
Lower(s) == [k \in 1..Len(s) |-> LowerChar(s[k])]

\* str.replace(",", " ")
ReplaceComma(s) == [k \in 1..Len(s) |-> IF s[k] = "," THEN " " ELSE s[k]]

\* str.isdigit(): non-empty and every character a digit character.
IsDigitStr(s) == s # <<>> /\ \A k \in 1..Len(s) : IsDigitChar(s[k])

\* The number of decimal digits at s[pos], s[pos+1], ...
RECURSIVE DigitRun(_, _)
DigitRun(s, pos) ==
  IF pos > Len(s) \/ ~IsDecimal(s[pos]) THEN 0 ELSE 1 + DigitRun(s, pos + 1)

RECURSIVE SpaceRun(_, _)
SpaceRun(s, pos) ==
  IF pos > Len(s) \/ ~IsSpace(s[pos]) THEN 0 ELSE 1 + SpaceRun(s, pos + 1)

\* ------------------------------------------------------------------------
\* datetime
\* ------------------------------------------------------------------------

\* A datetime: calendar fields, microseconds, and its tzinfo: aware is FALSE
\* for a naive datetime, else off is the UTC offset in minutes.
MkDt(y, mo, d, h, mi, s) ==
  [y |-> y, mo |-> mo, d |-> d, h |-> h, mi |-> mi, s |-> s, us |-> 0,
   aware |-> FALSE, off |-> 0]

IsLeap(y) == (y % 4 = 0 /\ y % 100 # 0) \/ y % 400 = 0

DaysInMonth(y, mo) ==
  CASE mo \in {4, 6, 9, 11} -> 30
    [] mo = 2 -> IF IsLeap(y) THEN 29 ELSE 28
    [] OTHER -> 31

\* What the datetime constructor accepts (it raises ValueError otherwise).
ValidFields(f) ==
  /\ f.y >= 1
  /\ f.mo \in 1..12
  /\ f.d \in 1..DaysInMonth(f.y, f.mo)
  /\ f.h \in 0..23
  /\ f.mi \in 0..59
  /\ f.s \in 0..59

Pad(n, w) ==
  [k \in 1..w |-> Digits[((n \div (10 ^ (w - k))) % 10) + 1]]

\* datetime.isoformat(): YYYY-MM-DDTHH:MM:SS[.ffffff][+HH:MM]
Isoformat(dt) ==
  Pad(dt.y, 4) \o <<"-">> \o Pad(dt.mo, 2) \o <<"-">> \o Pad(dt.d, 2) \o <<"T">>
  \o Pad(dt.h, 2) \o <<":">> \o Pad(dt.mi, 2) \o <<":">> \o Pad(dt.s, 2)
  \o (IF dt.us = 0 THEN <<>> ELSE <<".">> \o Pad(dt.us, 6))
  \o (IF ~dt.aware THEN <<>>
      ELSE LET a == IF dt.off < 0 THEN 0 - dt.off ELSE dt.off IN
           <<IF dt.off < 0 THEN "-" ELSE "+">> \o Pad(a \div 60, 2) \o <<":">>
           \o Pad(a % 60, 2))

\* dt.strftime("%Y:%m:%d %H:%M:%S")
StrftimeExif(dt) ==
  Pad(dt.y, 4) \o <<":">> \o Pad(dt.mo, 2) \o <<":">> \o Pad(dt.d, 2) \o <<" ">>
  \o Pad(dt.h, 2) \o <<":">> \o Pad(dt.mi, 2) \o <<":">> \o Pad(dt.s, 2)

\* dt.strftime("%Y-%m-%d %H:%M:%S"), the form the custom prompt asks for.
StrftimeDash(dt) ==
  Pad(dt.y, 4) \o <<"-">> \o Pad(dt.mo, 2) \o <<"-">> \o Pad(dt.d, 2) \o <<" ">>
  \o Pad(dt.h, 2) \o <<":">> \o Pad(dt.mi, 2) \o <<":">> \o Pad(dt.s, 2)

\* ------------------------------------------------------------------------
\* datetime.strptime
\* ------------------------------------------------------------------------

NumTok == {"%Y", "%m", "%d", "%H", "%M", "%S", "%f"}

MinW(t) == IF t = "%Y" THEN 4 ELSE 1
MaxW(t) == CASE t = "%Y" -> 4 [] t = "%f" -> 6 [] OTHER -> 2
Lo(t) == IF t \in {"%m", "%d"} THEN 1 ELSE 0
Hi(t) ==
  CASE t = "%Y" -> 9999 [] t = "%m" -> 12 [] t = "%d" -> 31 [] t = "%H" -> 23
    [] t = "%M" -> 59 [] t = "%S" -> 61 [] t = "%f" -> 999999

NoMatch == [ok |-> FALSE]

StrptimeDefaults ==
  [y |-> 1900, mo |-> 1, d |-> 1, h |-> 0, mi |-> 0, s |-> 0, us |-> 0,
   aware |-> FALSE, off |-> 0]

SetField(acc, t, n, v) ==
  CASE t = "%Y" -> [acc EXCEPT !.y = v]
    [] t = "%m" -> [acc EXCEPT !.mo = v]
    [] t = "%d" -> [acc EXCEPT !.d = v]
    [] t = "%H" -> [acc EXCEPT !.h = v]
    [] t = "%M" -> [acc EXCEPT !.mi = v]
    [] t = "%S" -> [acc EXCEPT !.s = v]
    [] t = "%f" -> [acc EXCEPT !.us = v * (10 ^ (6 - n))]

\* %z at s[pos]: "Z", or a sign, two digits, an optional colon and two digits.
\* The result is [ok, len, tz].
MatchZ(s, pos) ==
  IF pos <= Len(s) /\ s[pos] = "Z" THEN [ok |-> TRUE, len |-> 1, tz |-> 0]
  ELSE IF pos + 4 <= Len(s) /\ s[pos] \in {"+", "-"} /\ DigitRun(s, pos + 1) >= 2
  THEN LET colon == IF s[pos + 3] = ":" THEN 1 ELSE 0
           mpos == pos + 3 + colon
           hh == ToInt(SubSeq(s, pos + 1, pos + 2))
       IN IF mpos + 1 <= Len(s) /\ IsDecimal(s[mpos]) /\ IsDecimal(s[mpos + 1])
             /\ DigitVal(s[mpos]) <= 5
             /\ (colon = 1 \/ DigitRun(s, pos + 1) >= 4)
          THEN LET mm == ToInt(SubSeq(s, mpos, mpos + 1))
                   off == 60 * hh + mm
               IN [ok |-> TRUE, len |-> 5 + colon,
                   tz |-> IF s[pos] = "-" THEN 0 - off ELSE off]
          ELSE NoMatch
  ELSE NoMatch

\* The format's regular expression matched against all of s from fmt[k] on:
\* a numeric directive takes as many digits as its pattern allows and fewer
\* where the rest does not match otherwise, a blank in the format takes one or
\* more blanks, a literal takes itself (case ignored).
RECURSIVE Match(_, _, _, _, _)
RECURSIVE MatchNum(_, _, _, _, _, _)

\* The numeric directive fmt[k] on the n digits at s[pos], else on fewer.
MatchNum(s, pos, fmt, k, acc, n) ==
  IF n < MinW(fmt[k]) THEN NoMatch
  ELSE LET F(v) ==
             IF v < Lo(fmt[k]) \/ v > Hi(fmt[k])
             THEN MatchNum(s, pos, fmt, k, acc, n - 1)
             ELSE LET G(r) == IF r.ok THEN r ELSE MatchNum(s, pos, fmt, k, acc, n - 1)
                  IN G(Match(s, pos + n, fmt, k + 1, SetField(acc, fmt[k], n, v)))
       IN F(ToInt(SubSeq(s, pos, pos + n - 1)))

Match(s, pos, fmt, k, acc) ==
  IF k > Len(fmt)
  THEN IF pos > Len(s) THEN [ok |-> TRUE, f |-> acc] ELSE NoMatch
  ELSE LET t == fmt[k] IN
    IF t = " "
    THEN LET n == SpaceRun(s, pos) IN
         IF n = 0 THEN NoMatch ELSE Match(s, pos + n, fmt, k + 1, acc)
    ELSE IF t \in NumTok
    THEN LET F(n) == MatchNum(s, pos, fmt, k, acc, IF n > MaxW(t) THEN MaxW(t) ELSE n)
         IN F(DigitRun(s, pos))
    ELSE IF t = "%z"
    THEN LET z == MatchZ(s, pos) IN
         IF ~z.ok THEN NoMatch
         ELSE Match(s, pos + z.len, fmt, k + 1, [acc EXCEPT !.aware = TRUE, !.off = z.tz])
    ELSE IF pos <= Len(s) /\ LowerChar(s[pos]) = LowerChar(t)
         THEN Match(s, pos + 1, fmt, k + 1, acc)
         ELSE NoMatch

\* datetime.strptime(s, fmt): the datetime, or None where Python raises
\* ValueError (no match, or fields no datetime can hold).
Strptime(s, fmt) ==
  LET m == Match(s, 1, fmt, 1, StrptimeDefaults) IN
  IF m.ok /\ ValidFields(m.f) THEN m.f ELSE None


\* strptime formats as token sequences.
EXPLICIT_FORMATS == <<
  <<"%Y", ":", "%m", ":", "%d">>,
  <<"%Y", ":", "%m", ":", "%d", " ", "%H", ":", "%M", ":", "%S">>,
  <<"%Y", ":", "%m", ":", "%d", " ", "%H", ":", "%M", ":", "%S", ".", "%f">>,
  <<"%Y", "-", "%m", "-", "%d", " ", "%H", ":", "%M", ":", "%S">>,
  <<"%Y", "-", "%m", "-", "%d", " ", "%H", ":", "%M", ":", "%S", ".", "%f">>,
  <<"%Y", "-", "%m", "-", "%d", "T", "%H", ":", "%M", ":", "%S">>,
  <<"%Y", "-", "%m", "-", "%d", "T", "%H", ":", "%M", ":", "%S", ".", "%f">>,
  <<"%Y", "-", "%m", "-", "%d", "T", "%H", ":", "%M", ":", "%S", "%z">>,
  <<"%Y", "-", "%m", "-", "%d", "T", "%H", ":", "%M", ":", "%S", ".", "%f", "%z">>,
  <<"%Y", ":", "%m", ":", "%d", " ", "%H", ":", "%M", ":", "%S", "%z">>,
  <<"%Y", ":", "%m", ":", "%d", " ", "%H", ":", "%M", ":", "%S", ".", "%f", "%z">> >>

\* The custom prompt's format, "%Y-%m-%d %H:%M:%S".
CUSTOM_FORMAT == EXPLICIT_FORMATS[4]

\* The day the command runs: dateutil takes from it the fields a string does
\* not give.
TODAY ==
  [y |-> 2026, mo |-> 11, d |-> 6, h |-> 0, mi |-> 0, s |-> 0, us |-> 0,
   aware |-> FALSE, off |-> 0]

\* The datetime of the fields f, or None where the constructor raises.
Built(f) == IF ValidFields(f) THEN f ELSE None

\* dateutil's two-digit year: the year of this century, or of the last if that
\* is fifty years or more ahead.
ConvertYear(v) ==
  LET F(y) == IF y >= TODAY.y + 50 THEN y - 100 ELSE IF y < TODAY.y - 50 THEN y + 100 ELSE y
  IN F((TODAY.y \div 100) * 100 + v)

\* The number a digit string stands for, 10000 standing for all above 9999.
Capped(s) ==
  IF \E k \in 1..(Len(s) - 4) : s[k] # "0" THEN 10000
  ELSE ToInt(SubSeq(s, IF Len(s) > 4 THEN Len(s) - 3 ELSE 1, Len(s)))

\* dateutil on three two-digit numbers: year first if the first exceeds 31,
\* day first if it exceeds 12, else month first.
ThreeNumbers(a, b, c) ==
  IF a > 31 THEN Built([TODAY EXCEPT !.y = ConvertYear(a), !.mo = b, !.d = c])
  ELSE IF a > 12 THEN Built([TODAY EXCEPT !.y = ConvertYear(c), !.mo = b, !.d = a])
  ELSE Built([TODAY EXCEPT !.y = ConvertYear(c), !.mo = a, !.d = b])

\* dateutil on one number: a day up to 31, a two-digit year up to 99, else a
\* year.
OneNumber(v) ==
  IF v = 0 THEN None
  ELSE IF v <= 31 THEN Built([TODAY EXCEPT !.d = v])
  ELSE IF v <= 99 THEN Built([TODAY EXCEPT !.y = ConvertYear(v)])
  ELSE IF v <= 9999 THEN Built([TODAY EXCEPT !.y = v])
  ELSE None

\* dateutil on a string of digits: YYMMDD for six, YYYYMMDD[hhmm[ss]] for
\* eight, twelve and fourteen, else one number.
DateutilDigits(s) ==
  IF Len(s) = 6
  THEN ThreeNumbers(ToInt(SubSeq(s, 1, 2)), ToInt(SubSeq(s, 3, 4)), ToInt(SubSeq(s, 5, 6)))
  ELSE IF Len(s) \in {8, 12, 14}
  THEN Built([TODAY EXCEPT !.y = ToInt(SubSeq(s, 1, 4)), !.mo = ToInt(SubSeq(s, 5, 6)),
                          !.d = ToInt(SubSeq(s, 7, 8)),
                          !.h = IF Len(s) > 8 THEN ToInt(SubSeq(s, 9, 10)) ELSE 0,
                          !.mi = IF Len(s) > 8 THEN ToInt(SubSeq(s, 11, 12)) ELSE 0,
                          !.s = IF Len(s) > 12 THEN ToInt(SubSeq(s, 13, 14)) ELSE 0])
  ELSE OneNumber(Capped(s))

\* dateutil's parser on a string no explicit format matched: None where it
\* raises. Of the other strings of this model that reach it none holds a
\* date, and dateutil raises on them.
DateutilParse(s) ==
  IF s # <<>> /\ DigitRun(s, 1) = Len(s) THEN DateutilDigits(s) ELSE None

\* The first explicit format, from the k-th on, that parses s.
RECURSIVE TryExplicit(_, _)
TryExplicit(s, k) ==
  IF k > Len(EXPLICIT_FORMATS) THEN None
  ELSE LET dt == Strptime(s, EXPLICIT_FORMATS[k]) IN
       IF dt # None THEN dt ELSE TryExplicit(s, k + 1)

\* A variant of parse_date without the guard of line 52.
parse_date_noguard(v) ==
  IF v.t # "str" \/ v.s = <<>> THEN None
  ELSE LET F(dt, s2) == IF dt # None THEN dt ELSE DateutilParse(s2)
       IN F(TryExplicit(ReplaceComma(Strip(v.s)), 1), ReplaceComma(Strip(v.s)))

\* utils.parse_date
parse_date(v) ==
  IF v.t # "str" \/ v.s = <<>> THEN None
  ELSE LET s == Strip(v.s) IN
    IF Len(s) \in 1..6 /\ DigitRun(s, 1) = Len(s) THEN None
    ELSE LET s2 == ReplaceComma(s)
             dt == TryExplicit(s2, 1)
         IN IF dt # None THEN dt ELSE DateutilParse(s2)

\* ------------------------------------------------------------------------
\* utils.infer_from_filename
\* ------------------------------------------------------------------------

\* n times \d
Rep(n) == [k \in 1..n |-> "\\d"]

DateTimeFmt(sep) == <<"%Y", "%m", "%d", sep, "%H", "%M", "%S">>

\* FILENAME_PATTERNS: pat is the regular expression without its parentheses,
\* more the digits \d{1,3} adds at its end, groups the places of its groups
\* in it, fmt the format.
FILENAME_PATTERNS == <<
  [pat |-> <<"P", "X", "L", "_">> \o Rep(8) \o <<"_">> \o Rep(6), more |-> 0,
   groups |-> << <<5, 19>> >>, fmt |-> DateTimeFmt("_")],
  [pat |-> <<"P", "X", "L", "_">> \o Rep(8) \o <<"_">> \o Rep(6), more |-> 3,
   groups |-> << <<5, 19>> >>, fmt |-> DateTimeFmt("_") \o <<"%f">>],
  [pat |-> <<"I", "M", "G", "_">> \o Rep(8) \o <<"_">> \o Rep(6), more |-> 0,
   groups |-> << <<5, 19>> >>, fmt |-> DateTimeFmt("_")],
  [pat |-> Rep(8) \o <<"_">> \o Rep(6), more |-> 0,
   groups |-> << <<1, 8>>, <<10, 15>> >>, fmt |-> DateTimeFmt("_")],
  [pat |-> Rep(8) \o <<"-">> \o Rep(6), more |-> 0,
   groups |-> << <<1, 8>>, <<10, 15>> >>, fmt |-> DateTimeFmt("-")],
  [pat |-> Rep(8), more |-> 0, groups |-> << <<1, 8>> >>, fmt |-> <<"%Y", "%m", "%d">>],
  [pat |-> Rep(4) \o <<"-">> \o Rep(2) \o <<"-">> \o Rep(2) \o <<" ">> \o Rep(2)
           \o <<".">> \o Rep(2) \o <<".">> \o Rep(2), more |-> 0,
   groups |-> << <<1, 19>> >>,
   fmt |-> <<"%Y", "-", "%m", "-", "%d", " ", "%H", ".", "%M", ".", "%S">>],
  [pat |-> Rep(8) \o <<"_">> \o Rep(6), more |-> 0,
   groups |-> << <<1, 8>>, <<10, 15>> >>, fmt |-> DateTimeFmt("_")],
  [pat |-> Rep(4) \o <<"_">> \o Rep(2) \o <<"_">> \o Rep(2), more |-> 0,
   groups |-> << <<1, 4>>, <<6, 7>>, <<9, 10>> >>, fmt |-> <<"%Y", "_", "%m", "_", "%d">>] >>

\* The pattern matches name from position p on.
FitsAt(name, p, P) ==
  /\ p + Len(P.pat) - 1 <= Len(name)
  /\ \A k \in 1..Len(P.pat) :
       IF P.pat[k] = "\\d" THEN IsDecimal(name[p + k - 1]) ELSE name[p + k - 1] = P.pat[k]
  /\ P.more > 0 => DigitRun(name, p + Len(P.pat)) >= 1

\* The digits \d{1,3} takes after the pattern matched at p: as many as there
\* are, up to three.
Taken(name, p, P) ==
  IF P.more = 0 THEN 0
  ELSE LET F(n) == IF n > P.more THEN P.more ELSE n IN F(DigitRun(name, p + Len(P.pat)))

\* The text of the g-th group of the match at p; the last group holds the
\* digits of \d{1,3}.
GroupText(name, p, P, g) ==
  SubSeq(name, p + P.groups[g][1] - 1,
         p + P.groups[g][2] - 1 + (IF g = Len(P.groups) THEN Taken(name, p, P) ELSE 0))

\* "_".join(m.groups()), from the g-th group on
RECURSIVE JoinGroups(_, _, _, _)
JoinGroups(name, p, P, g) ==
  IF g = Len(P.groups) THEN GroupText(name, p, P, g)
  ELSE GroupText(name, p, P, g) \o <<"_">> \o JoinGroups(name, p, P, g + 1)

\* The text lines 98-101 hand to strptime for the match at p: the one group,
\* or the groups joined by "_".
Parsed(name, p, P) ==
  IF Len(P.groups) > 1 THEN JoinGroups(name, p, P, 1) ELSE GroupText(name, p, P, 1)

\* re.search(pat, name) and lines 97-104: the datetime parsed from the leftmost
\* match, None where there is no match or strptime raises.
TryPattern(name, P) ==
  IF \E p \in 1..Len(name) : FitsAt(name, p, P)
  THEN LET F(p) == Strptime(Parsed(name, p, P), P.fmt)
       IN F(CHOOSE p \in 1..Len(name) :
              FitsAt(name, p, P) /\ \A q \in 1..(p - 1) : ~FitsAt(name, q, P))
  ELSE None

\* The name without its extension: re.sub(r"\.[^.]+$", "", name)
Base(name) ==
  IF \E p \in 1..(Len(name) - 1) : name[p] = "." /\ \A q \in (p + 1)..Len(name) : name[q] # "."
  THEN SubSeq(name, 1, (CHOOSE p \in 1..(Len(name) - 1) :
                          name[p] = "." /\ \A q \in (p + 1)..Len(name) : name[q] # ".") - 1)
  ELSE name

\* What dateutil's fuzzy parse can give for the name without its extension:
\* it raises where there is no digit (the names of this model hold no month
\* and no weekday), and where there are digits it gives some datetime or
\* raises.
FuzzyOutcomes(base) ==
  IF \E k \in 1..Len(base) : IsDecimal(base[k]) THEN {None, TODAY} ELSE {None}

\* The loop of lines 94-104 from the k-th pattern on: the first datetime a
\* pattern gives, None where none does.
RECURSIVE FromPattern(_, _)
FromPattern(name, k) ==
  IF k > Len(FILENAME_PATTERNS) THEN None
  ELSE LET F(dt) == IF dt # None THEN dt ELSE FromPattern(name, k + 1)
       IN F(TryPattern(name, FILENAME_PATTERNS[k]))

\* utils.infer_from_filename: the values it can return.
infer_from_filename(v) ==
  IF v.t = "None" \/ v.s = <<>> THEN {None}
  ELSE LET F(dt) == IF dt # None THEN {dt} ELSE FuzzyOutcomes(Base(v.s))
       IN F(FromPattern(v.s, 1))

\* ------------------------------------------------------------------------
\* Timestamps (seconds since 1970-01-01; the local time zone is UTC)
\* ------------------------------------------------------------------------

DaysFromCivil(y, m, d) ==
  LET yy == IF m <= 2 THEN y - 1 ELSE y
      era == yy \div 400
      yoe == yy - era * 400
      mp == IF m > 2 THEN m - 3 ELSE m + 9
      doy == (153 * mp + 2) \div 5 + d - 1
      doe == yoe * 365 + yoe \div 4 - yoe \div 100 + doy
  IN era * 146097 + doe - 719468

CivilFromDays(z0) ==
  LET z == z0 + 719468
      era == z \div 146097
      doe == z - era * 146097
      yoe == (doe - doe \div 1460 + doe \div 36524 - doe \div 146096) \div 365
      doy == doe - (365 * yoe + yoe \div 4 - yoe \div 100)
      mp == (5 * doy + 2) \div 153
      d == doy - (153 * mp + 2) \div 5 + 1
      m == IF mp < 10 THEN mp + 3 ELSE mp - 9
      y == yoe + era * 400
  IN [y |-> IF m <= 2 THEN y + 1 ELSE y, mo |-> m, d |-> d]

\* datetime.fromtimestamp(ts): a naive local datetime.
FromTimestamp(ts) ==
  LET c == CivilFromDays(ts \div 86400)
      r == ts % 86400
  IN MkDt(c.y, c.mo, c.d, r \div 3600, (r % 3600) \div 60, r % 60)

\* dt.timestamp(), to the second.
ToTimestamp(dt) ==
  DaysFromCivil(dt.y, dt.mo, dt.d) * 86400 + dt.h * 3600 + dt.mi * 60 + dt.s
  - (IF dt.aware THEN dt.off * 60 ELSE 0)


\* ------------------------------------------------------------------------
\* State
\* ------------------------------------------------------------------------

VARIABLES
  files,       \* the matched files, in glob order: [name, stat]
  exif,        \* the metadata mapping exiftool reports for the current file
  backupDir,   \* the files under the backups folder, in glob order: [rel, name, stat, exif]
  args,        \* cmd_set_dates' arguments
  hasExiftool, \* exiftool is on PATH
  platform,    \* "linux", "macos" or "macos_setfile" (macOS with SetFile on PATH)
  fsOrder,     \* the iteration order of the set ALL_FS_TAGS in this process, once used
  pc,          \* where the command is: "loop", "prompt", "custom", "done", "raised"
  exc,         \* the exception that left cmd_set_dates, or "none"
  i,           \* cmd_set_dates' file index (0-based)
  candidates,  \* the current file's candidates
  chosen,      \* cmd_set_dates' `chosen`: what interactive_choose last returned
  chosen_dt,   \* cmd_set_dates' `chosen_dt`: the date last chosen, or None
  idx,         \* interactive_choose's highlighted index (0-based)
  ans,         \* the last answer read at the prompt, stripped and lowered
  custom,      \* the text read at the custom prompt in this pass of the loop, if any
  msg,         \* the last line interactive_choose printed
  out,         \* cmd_set_dates' report lines, in order: [line, file]
  effects,     \* what the writers did, in order: [op, file, tag, ok]
  calls,       \* the delegate calls of a direct apply_destinations call, in order
  found,       \* search_files' `matches`: the names of the files matched so far
  requested_tag_names, \* search_files' `requested_tag_names`
  evaluated,   \* the terms search_files had evaluated for the last file, in order
  arg,         \* the argument of a direct call of a function of utils or search
  result       \* what that call returned

\* The state of the search and of the direct calls.
searchVars == <<found, requested_tag_names, evaluated, arg, result>>

vars == <<files, exif, backupDir, args, hasExiftool, platform, fsOrder, pc, exc, i,
          candidates, chosen, chosen_dt, idx, ans, custom, msg, out, effects, calls,
          found, requested_tag_names, evaluated, arg, result>>

\* os.stat results carry st_birthtime on macOS only.
hasBirthtime == platform # "linux"

\* set_times.has_setfile
has_setfile == platform = "macos_setfile"

\* ------------------------------------------------------------------------
\* date_mapper: collecting candidates
\* ------------------------------------------------------------------------

ALL_FS_TAGS == {"File:System:FileAccessDate", "File:System:FileModifyDate",
                "File:System:FileInodeChangeDate", "File:System:CreatedDate"}

\* A call's outcome: a value, or an exception leaving the call.
Ret(v) == [exc |-> FALSE, val |-> v]
Raise(e) == [exc |-> TRUE, val |-> e]

system_tag_to_datetime(path, tag) ==
  CASE tag = "File:System:FileAccessDate" -> Ret(FromTimestamp(path.stat.atime))
    [] tag = "File:System:FileModifyDate" -> Ret(FromTimestamp(path.stat.mtime))
    [] tag = "File:System:FileInodeChangeDate" -> Ret(FromTimestamp(path.stat.ctime))
    [] tag = "File:System:CreatedDate" ->
         IF hasBirthtime THEN Ret(FromTimestamp(path.stat.birthtime))
         ELSE Raise("AttributeError")
    [] OTHER -> Ret(None)

\* exiftool.read_all_tags: the file's date tags in exiftool's order, or the
\* empty mapping without exiftool.
read_all_tags(path) == IF hasExiftool THEN path.exif ELSE <<>>

HasKey(mapping, tag) == \E k \in 1..Len(mapping) : mapping[k].tag = tag
Lookup(mapping, tag) ==
  mapping[CHOOSE k \in 1..Len(mapping) : mapping[k].tag = tag].val

Cand(prefix, tag, dt) == [prefix |-> prefix, tag |-> tag, dt |-> dt]

\* Results are threaded through parameters (LET F(r) == ... IN F(e)) so that
\* each call is written, and evaluated, once.

\* The candidate a parsed value gives: one, or none when it is None.
OneCand(prefix, tag, dt) == IF dt # None THEN <<Cand(prefix, tag, dt)>> ELSE <<>>

\* r, then rest, where either may have raised.
Then(r, prefix, tag, rest) ==
  IF r.exc THEN r
  ELSE IF rest.exc THEN rest
  ELSE Ret(OneCand(prefix, tag, r.val) \o rest.val)

\* The wildcard's loop over the metadata mapping's items.
RECURSIVE ExifCandidates(_, _, _)
ExifCandidates(mapping, k, prefix) ==
  IF k > Len(mapping) THEN <<>>
  ELSE OneCand(prefix, mapping[k].tag,
               IF mapping[k].val.t = "str" THEN parse_date(mapping[k].val) ELSE None)
       \o ExifCandidates(mapping, k + 1, prefix)

\* The wildcard's loop over ALL_FS_TAGS, taken in the order `order`.
RECURSIVE FsCandidates(_, _, _, _)
FsCandidates(path, order, k, prefix) ==
  IF k > Len(order) THEN Ret(<<>>)
  ELSE Then(system_tag_to_datetime(path, order[k]), prefix, order[k],
            FsCandidates(path, order, k + 1, prefix))

\* The value an explicit selector reads.
TagValue(path, mapping, tag) ==
  IF tag \in ALL_FS_TAGS THEN system_tag_to_datetime(path, tag)
  ELSE IF HasKey(mapping, tag)
  THEN LET F(val) == Ret(IF val.t = "str" THEN parse_date(val) ELSE None)
       IN F(Lookup(mapping, tag))
  ELSE Ret(None)

\* The loop over explicit selectors.
RECURSIVE TagCandidates(_, _, _, _, _)
TagCandidates(path, mapping, tags, k, prefix) ==
  IF k > Len(tags) THEN Ret(<<>>)
  ELSE Then(TagValue(path, mapping, tags[k]), prefix, tags[k],
            TagCandidates(path, mapping, tags, k + 1, prefix))

candidates_for_file(path, tags, prefix, order) ==
  IF ~(Len(tags) > 0) THEN Ret(<<>>)
  ELSE LET Both(file_exif_tags) ==
             IF tags[1] \in {"*", "ALL"}
             THEN LET F(fs) ==
                        IF fs.exc THEN fs
                        ELSE Ret(ExifCandidates(file_exif_tags, 1, prefix) \o fs.val)
                  IN F(FsCandidates(path, order, 1, prefix))
             ELSE TagCandidates(path, file_exif_tags, tags, 1, prefix)
       IN Both(read_all_tags(path))

\* f'{path.name}: ' and f"backup: {Path(file).relative_to(backups_path)}: "
FilePrefix(path) == [kind |-> "file", label |-> path.name]
BackupPrefix(file) == [kind |-> "backup", label |-> file.rel]

\* glob.glob(backups_path / "**" / path.name, recursive=True)
GlobBackups(dir, path) == SelectSeq(dir, LAMBDA f : f.name = path.name)

\* candidates.extend(more), where either call may have raised.
Extend(r, rest) ==
  IF r.exc THEN r ELSE IF rest.exc THEN rest ELSE Ret(r.val \o rest.val)

\* The loop over the backup matches; every pass reads `path`.
RECURSIVE BackupCandidates(_, _, _, _, _)
BackupCandidates(path, matches, k, tags, order) ==
  IF k > Len(matches) THEN Ret(<<>>)
  ELSE Extend(candidates_for_file(path, tags, BackupPrefix(matches[k]), order),
              BackupCandidates(path, matches, k + 1, tags, order))

\* backups_path is [given, dir]; backups_tags is [given, tags] (not given: None).
gather_candidates(path, src_tags, backups_path, backups_tags, order) ==
  Extend(candidates_for_file(path, src_tags, FilePrefix(path), order),
         IF backups_path.given
         THEN BackupCandidates(path, GlobBackups(backups_path.dir, path), 1,
                               IF ~backups_tags.given THEN <<"*">> ELSE backups_tags.tags,
                               order)
         ELSE Ret(<<>>))


\* ------------------------------------------------------------------------
\* Writers
\* ------------------------------------------------------------------------

\* One thing a writer did: op is "utime", "SetFile" or "exiftool" (a call that
\* touches the file; ok is FALSE when it failed) or "print" (a dry-run line).
Eff(op, path, tag, dt, str, ok) ==
  [op |-> op, file |-> path.name, tag |-> tag, dt |-> dt, str |-> str, ok |-> ok]

Did(effs) == [exc |-> FALSE, name |-> "none", effs |-> effs]
Threw(e, effs) == [exc |-> TRUE, name |-> e, effs |-> effs]

\* set_times.apply_system_time; `fails` says whether the operating system
\* refuses the os.utime call.
apply_system_time(path, tag, dt, dry_run, fails) ==
  IF tag \in {"File:System:FileModifyDate", "File:System:FileAccessDate"}
  THEN IF dry_run THEN Did(<<Eff("print", path, tag, dt, <<>>, TRUE)>>)
       ELSE IF fails THEN Threw("OSError", <<>>)
       ELSE Did(<<Eff("utime", path, tag, dt, <<>>, TRUE)>>)
  ELSE IF tag = "File:System:CreatedDate" /\ has_setfile
  THEN IF dry_run THEN Did(<<Eff("print", path, tag, dt, <<>>, TRUE)>>)
       ELSE Did(<<Eff("SetFile", path, tag, dt, <<>>, ~fails)>>)
  ELSE Did(<<>>)

\* exif_setter.set_exif_tags with the one-entry mapping {tag: str}; `fails`
\* says whether the exiftool process exits with an error.
set_exif_tags(path, tag, str, dry_run, update_systime, fails) ==
  IF ~hasExiftool THEN Threw("RuntimeError", <<>>)
  ELSE IF dry_run THEN Did(<<Eff("print", path, tag, None, str, TRUE)>>)
  ELSE IF fails THEN Threw("CalledProcessError", <<Eff("exiftool", path, tag, None, str, FALSE)>>)
  ELSE Did(<<Eff("exiftool", path, tag, None, str, TRUE)>>)

\* A call of a delegate, with the arguments it was given.
SystemTimeCall(path, tag, dt, dry_run) ==
  [fn |-> "apply_system_time", file |-> path.name, tag |-> tag, dt |-> dt,
   dry_run |-> dry_run]
ExifCall(path, tag, str, dry_run, update_systime) ==
  [fn |-> "set_exif_tags", file |-> path.name,
   tags |-> <<[tag |-> tag, val |-> str]>>,
   dry_run |-> dry_run, update_systime |-> update_systime]

\* The calls made, the effects they had, and the exception that ended them.
After(call, r, rest) ==
  IF r.exc THEN [exc |-> TRUE, name |-> r.name, effs |-> r.effs, calls |-> <<call>>]
  ELSE [exc |-> rest.exc, name |-> rest.name, effs |-> r.effs \o rest.effs,
        calls |-> <<call>> \o rest.calls]

\* date_mapper.apply_destinations from the k-th destination on; failAt is the
\* position of the destination whose external call fails (0: none does).
RECURSIVE ApplyFrom(_, _, _, _, _, _, _)
ApplyFrom(path, dests, k, dt, dry_run, update_systime, failAt) ==
  IF k > Len(dests)
  THEN [exc |-> FALSE, name |-> "none", effs |-> <<>>, calls |-> <<>>]
  ELSE IF dests[k] \in ALL_FS_TAGS
  THEN After(SystemTimeCall(path, dests[k], dt, dry_run),
             apply_system_time(path, dests[k], dt, dry_run, k = failAt),
             ApplyFrom(path, dests, k + 1, dt, dry_run, update_systime, failAt))
  ELSE After(ExifCall(path, dests[k], StrftimeExif(dt), dry_run, update_systime),
             set_exif_tags(path, dests[k], StrftimeExif(dt), dry_run,
                           update_systime, k = failAt),
             ApplyFrom(path, dests, k + 1, dt, dry_run, update_systime, failAt))

\* A variant of apply_destinations that leaves update_systime at its default.
apply_destinations_default(path, dests, dt, dry_run, update_systime, failAt) ==
  ApplyFrom(path, dests, 1, dt, dry_run, FALSE, failAt)

apply_destinations(path, dests, dt, dry_run, update_systime, failAt) ==
  ApplyFrom(path, dests, 1, dt, dry_run, update_systime, failAt)

\* ------------------------------------------------------------------------
\* date_mapper.interactive_choose
\* ------------------------------------------------------------------------

\* What the chooser hands back: a datetime, None, or a string.
ChosenDt(dt) == [t |-> "datetime", dt |-> dt, s |-> ""]
ChosenNone == [t |-> "None", dt |-> None, s |-> ""]
ChosenStr(s) == [t |-> "str", dt |-> None, s |-> s]
\* A local variable nothing was assigned to yet.
Unbound == [t |-> "unbound", dt |-> None, s |-> ""]

\* One pass of the loop body after `ans` was read:
\*   [kind |-> "return", val]   the function returns val
\*   [kind |-> "raise", name]   an exception leaves the function
\*   [kind |-> "custom"]        the function asks for the custom datetime
\*   [kind |-> "again", idx, msg] the loop runs again
StepReturn(v) == [kind |-> "return", val |-> v, name |-> "none", idx |-> 0, msg |-> ""]
StepRaise(e) == [kind |-> "raise", val |-> ChosenNone, name |-> e, idx |-> 0, msg |-> ""]
StepCustom(k) == [kind |-> "custom", val |-> ChosenNone, name |-> "none", idx |-> k, msg |-> ""]
StepAgain(k, m) == [kind |-> "again", val |-> ChosenNone, name |-> "none", idx |-> k, msg |-> m]

\* int(ans) for a string str.isdigit() accepted.
IntOf(a) ==
  IF \A k \in 1..Len(a) : IsDecimal(a[k]) THEN Ret(ToInt(a)) ELSE Raise("ValueError")

\* A variant of interactive_choose_entry without the early return.
interactive_choose_entry_noguard(cands) == StepAgain(0, "menu")

\* Lines 164-171: no candidates, no prompt; else the menu, then the first
\* prompt with idx = 0.
interactive_choose_entry(cands) ==
  IF cands = <<>> THEN StepReturn(ChosenNone) ELSE StepAgain(0, "menu")

\* Lines 174-175: the empty answer.
OnEmpty(cands, k) == StepReturn(ChosenDt(cands[k + 1].dt))

\* A variant of OnQuit that returns as for a skip.
OnQuit_skip == StepReturn(ChosenNone)

\* Lines 176-177
OnQuit == StepRaise("SystemExit")

\* A variant of OnSkip that falls into the accepting branch.
OnSkip_accept(cands, k) == StepReturn(ChosenDt(cands[k + 1].dt))

\* Lines 178-179
OnSkip(cands, k) == StepReturn(ChosenNone)

\* Lines 188-191
OnNext(cands, k) == StepAgain((k + 1) % Len(cands), "Selected")

\* A variant of OnPrevious without the wrap-around.
OnPrevious_nowrap(cands, k) == StepAgain(k - 1, "Selected")

\* Lines 192-195
OnPrevious(cands, k) == StepAgain((k - 1) % Len(cands), "Selected")

\* Lines 196-200: an index, or anything else.
OnOther(cands, k, a) ==
  IF IsDigitStr(a)
  THEN LET F(n) ==
             IF n.exc THEN StepRaise(n.val)
             ELSE IF 0 <= n.val /\ n.val < Len(cands)
             THEN StepReturn(ChosenDt(cands[n.val + 1].dt))
             ELSE StepAgain(k, "Invalid choice")
       IN F(IntOf(a))
  ELSE StepAgain(k, "Invalid choice")

choose_step(cands, k, a) ==
  CASE a = <<>> -> OnEmpty(cands, k)
    [] a = <<"q">> -> OnQuit
    [] a = <<"s">> -> OnSkip(cands, k)
    [] a = <<"c">> -> StepCustom(k)
    [] a = <<"n">> -> OnNext(cands, k)
    [] a = <<"p">> -> OnPrevious(cands, k)
    [] OTHER -> OnOther(cands, k, a)

\* A variant of custom_step that starts over at index 0 after a bad value.
custom_step_reset(k, text) ==
  LET F(dt) == IF dt # None THEN StepReturn(ChosenDt(dt))
               ELSE StepAgain(0, "Invalid format")
  IN F(Strptime(text, CUSTOM_FORMAT))

\* The custom branch after `custom` was read.
custom_step(k, text) ==
  LET F(dt) == IF dt # None THEN StepReturn(ChosenDt(dt))
               ELSE StepAgain(k, "Invalid format")
  IN F(Strptime(text, CUSTOM_FORMAT))


\* ------------------------------------------------------------------------
\* The inputs of the model
\* ------------------------------------------------------------------------

\* The number of files the pattern matches.
MaxFiles == 2

Names == <<"a.jpg", "b.jpg", "c.jpg", "d.jpg">>

\* 2020-01-01 00:00:00, as a timestamp.
T0 == DaysFromCivil(2020, 1, 1) * 86400

\* The k-th file: created, then modified (mtime = ctime), then read.
StatAt(k) ==
  [birthtime |-> T0 + 86400 * k, mtime |-> T0 + 86400 * k + 3600,
   ctime |-> T0 + 86400 * k + 3600, atime |-> T0 + 86400 * k + 7261]

FileAt(k) == [name |-> Names[k], stat |-> StatAt(k)]

Str(s) == [t |-> "str", s |-> s]
Entry(tag, val) == [tag |-> tag, val |-> val]

DTO == "EXIF:ExifIFD:DateTimeOriginal"
CD == "EXIF:ExifIFD:CreateDate"
SUB == "EXIF:ExifIFD:SubSecTime"
GPS == "EXIF:GPS:GPSDateStamp"
XMP == "XMP:XMP-xmp:MetadataDate"

D1 == MkDt(2019, 12, 31, 23, 59, 58)
D2 == MkDt(2020, 2, 29, 12, 0, 0)

\* What exiftool may report for a file.
ExifChoices ==
  { <<>>,
    <<Entry(DTO, Str(StrftimeExif(D1))), Entry(CD, Str(StrftimeExif(D2)))>>,
    <<Entry(DTO, Str(StrftimeExif(D1))), Entry(CD, Str(StrftimeDash(D1))),
      Entry(SUB, Str(<<"7", "3", "2">>)),
      Entry(GPS, Str(<<"n", "o", "t", "a", "d", "a", "t", "e">>)),
      Entry(XMP, [t |-> "list", s |-> <<>>])>> }

\* The backups folder: two copies of the first file, and another file.
BackupFiles ==
  << [rel |-> "2020/a.jpg", name |-> "a.jpg", stat |-> StatAt(3),
      exif |-> <<Entry(CD, Str(StrftimeExif(D2)))>>],
     [rel |-> "old/a.jpg", name |-> "a.jpg", stat |-> StatAt(4), exif |-> <<>>],
     [rel |-> "2020/z.jpg", name |-> "z.jpg", stat |-> StatAt(4), exif |-> <<>>] >>

DestChoices ==
  { <<"File:System:FileModifyDate", "EXIF:AllDates", "File:System:CreatedDate">> }

\* backups_tags as the caller passes it: None, or a list.
NotGiven == [given |-> FALSE, tags |-> <<>>]
Given(tags) == [given |-> TRUE, tags |-> tags]

\* What the command line selects to read: src_tags, and the backups folder
\* with its backups_tags.
ReadChoices ==
  { [src_tags |-> <<>>, backups_given |-> FALSE, backups_tags |-> NotGiven],
    [src_tags |-> <<DTO>>, backups_given |-> FALSE, backups_tags |-> NotGiven],
    [src_tags |-> <<DTO, "foo:bar", CD, SUB, GPS, XMP, "File:System:FileModifyDate">>,
     backups_given |-> FALSE, backups_tags |-> NotGiven],
    [src_tags |-> <<DTO>>, backups_given |-> TRUE, backups_tags |-> NotGiven],
    [src_tags |-> <<DTO>>, backups_given |-> TRUE, backups_tags |-> Given(<<CD>>)] }

ArgChoices ==
  { [dest_tags |-> d, src_tags |-> s.src_tags, backups_given |-> s.backups_given,
     backups_tags |-> s.backups_tags, interactive |-> n, dry_run |-> r,
     update_systime |-> FALSE] :
      d \in DestChoices, s \in ReadChoices, n \in BOOLEAN, r \in BOOLEAN }

\* The machine: whether exiftool is installed, and the platform.
EnvChoices ==
  { [hasExiftool |-> TRUE, platform |-> "linux"],
    [hasExiftool |-> TRUE, platform |-> "macos_setfile"],
    [hasExiftool |-> FALSE, platform |-> "linux"] }

\* What the operator may type at the "Choose index" prompt.
PromptInputs ==
  { <<>>, <<"q">>, <<" ", "Q">>, <<"s">>, <<"c">>, <<"n">>, <<"p">>,
    <<"0">>, <<"1">>, <<"9">>, <<"x">>, <<"sup2">> }

\* What the operator may type at the custom prompt.
CustomInputs ==
  { StrftimeDash(MkDt(2021, 3, 4, 5, 6, 7)), StrftimeExif(MkDt(2021, 3, 4, 5, 6, 7)),
    StrftimeDash(MkDt(2021, 2, 30, 5, 6, 7)),
    <<"2", "0", "2", "1", "-", "3", "-", "4", " ", "5", ":", "6", ":", "7">> }

\* The orders in which a process may iterate the set ALL_FS_TAGS.
Perms == { p \in [1..4 -> ALL_FS_TAGS] : \A a, b \in 1..4 : a # b => p[a] # p[b] }

\* ------------------------------------------------------------------------
\* set_dates.cmd_set_dates
\* ------------------------------------------------------------------------

PathOf(f, e) == [name |-> f.name, stat |-> f.stat, exif |-> e]

\* A report line: "APPLIED <file> -> <date>" or "SKIPPED <file> (no choice)".
Line(kind, path) == [line |-> kind, file |-> path.name]

\* The writers' effects as the log keeps them.
Brief(effs) ==
  [k \in 1..Len(effs) |->
     [op |-> effs[k].op, file |-> effs[k].file, tag |-> effs[k].tag, ok |-> effs[k].ok]]

\* Lines 85-88: backups_tags None becomes the empty list.
NormBackupsTags(bt) == Given(IF bt.given THEN bt.tags ELSE <<>>)

IsWild(tags) == Len(tags) > 0 /\ tags[1] \in {"*", "ALL"}

\* Whether gathering for `path` iterates ALL_FS_TAGS.
NeedsOrder(path) ==
  \/ IsWild(args.src_tags)
  \/ /\ args.backups_given
     /\ GlobBackups(backupDir, path) # <<>>
     /\ IsWild(NormBackupsTags(args.backups_tags).tags)

\* Which destination's external call may fail: none (0), or any one of a run
\* that is not a dry run.
FailChoices == IF args.dry_run THEN {0} ELSE 0..Len(args.dest_tags)

\* Lines 137-146: apply the chosen date, report, go to the next file.
Conclude(path, dt) ==
  /\ chosen_dt' = dt
  /\ IF dt # None
     THEN \E failAt \in FailChoices :
          \E r \in {apply_destinations(path, args.dest_tags, dt, args.dry_run,
                                       args.update_systime, failAt)} :
             /\ effects' = effects \o Brief(r.effs)
             /\ IF r.exc
                THEN pc' = "raised" /\ exc' = r.name /\ i' = i /\ out' = out
                ELSE /\ pc' = "loop" /\ exc' = exc /\ i' = i + 1
                     /\ out' = Append(out, Line("APPLIED", path))
     ELSE pc' = "loop" /\ exc' = exc /\ i' = i + 1 /\ out' = out /\ effects' = effects

\* A variant of HandleChosen that stays on the file for 'previous'.
HandleChosen_stay(path, ch) ==
  IF ch.t = "str" /\ ch.s = "next"
  THEN /\ pc' = "loop" /\ exc' = exc /\ i' = i + 1
       /\ UNCHANGED <<out, effects, chosen_dt>>
  ELSE IF ch.t = "str" /\ ch.s = "previous"
  THEN /\ pc' = "loop" /\ exc' = exc /\ i' = i
       /\ UNCHANGED <<out, effects, chosen_dt>>
  ELSE IF ch.t = "str" /\ ch.s = "quit"
  THEN /\ pc' = "raised" /\ exc' = "SystemExit" /\ i' = i
       /\ UNCHANGED <<out, effects, chosen_dt>>
  ELSE IF ch.t = "None"
  THEN /\ pc' = "loop" /\ exc' = exc /\ i' = i + 1
       /\ out' = Append(out, Line("SKIPPED", path))
       /\ UNCHANGED <<effects, chosen_dt>>
  ELSE Conclude(path, ch.dt)

\* Lines 120-133: what the loop does with the chooser's result.
HandleChosen(path, ch) ==
  IF ch.t = "str" /\ ch.s = "next"
  THEN /\ pc' = "loop" /\ exc' = exc /\ i' = i + 1
       /\ UNCHANGED <<out, effects, chosen_dt>>
  ELSE IF ch.t = "str" /\ ch.s = "previous"
  THEN /\ pc' = "loop" /\ exc' = exc /\ i' = (IF i - 1 > 0 THEN i - 1 ELSE 0)
       /\ UNCHANGED <<out, effects, chosen_dt>>
  ELSE IF ch.t = "str" /\ ch.s = "quit"
  THEN /\ pc' = "raised" /\ exc' = "SystemExit" /\ i' = i
       /\ UNCHANGED <<out, effects, chosen_dt>>
  ELSE IF ch.t = "None"
  THEN /\ pc' = "loop" /\ exc' = exc /\ i' = i + 1
       /\ out' = Append(out, Line("SKIPPED", path))
       /\ UNCHANGED <<effects, chosen_dt>>
  ELSE Conclude(path, ch.dt)

\* Line 119: chosen = date_mapper.interactive_choose(candidates), then the above.
Handle(path, ch) ==
  /\ chosen' = ch
  /\ HandleChosen(path, ch)

\* A variant of ShouldChoose with >= for >.
ShouldChoose_any(force_interactive, cands) == force_interactive \/ Len(cands) >= 1

\* Lines 113-114: whether the file goes to interactive_choose.
ShouldChoose(force_interactive, cands) == force_interactive \/ Len(cands) > 1

\* Lines 103-135 up to the first prompt: gather, then choose or ask.
BeginFile ==
  /\ pc = "loop"
  /\ i < Len(files)
  /\ \E e \in ExifChoices :
       \E path \in {PathOf(files[i + 1], e)} :
       \E order \in (IF fsOrder # <<>> THEN {fsOrder}
                     ELSE IF NeedsOrder(path) THEN Perms ELSE {<<>>}) :
         \E g \in {gather_candidates(path, args.src_tags,
                                    [given |-> args.backups_given, dir |-> backupDir],
                                    NormBackupsTags(args.backups_tags), order)} :
            /\ exif' = e
            /\ fsOrder' = order
            /\ ans' = <<>>
            /\ custom' = <<>>
            /\ IF g.exc
               THEN /\ pc' = "raised" /\ exc' = g.val
                    /\ UNCHANGED <<i, candidates, chosen, chosen_dt, idx, msg, out, effects>>
               ELSE /\ candidates' = g.val
                    /\ IF ShouldChoose(args.interactive, g.val)
                       THEN \E st \in {interactive_choose_entry(g.val)} :
                            IF st.kind = "return"
                            THEN Handle(path, st.val) /\ UNCHANGED <<idx, msg>>
                            ELSE /\ pc' = "prompt" /\ idx' = st.idx /\ msg' = st.msg
                                 /\ UNCHANGED <<exc, i, chosen, chosen_dt, out, effects>>
                       ELSE /\ Conclude(path, IF g.val # <<>> THEN g.val[1].dt ELSE None)
                            /\ UNCHANGED <<chosen, idx, msg>>
  /\ UNCHANGED <<files, backupDir, args, hasExiftool, platform, calls>>
  /\ UNCHANGED searchVars

\* interactive_choose lines 173-200: one answer at the prompt.
Answer ==
  /\ pc = "prompt"
  /\ \E raw \in PromptInputs :
       \E a \in {Lower(Strip(raw))} :
       \E st \in {choose_step(candidates, idx, a)} :
          /\ ans' = a
          /\ custom' = <<>>
          /\ IF st.kind = "again"
             THEN /\ pc' = "prompt" /\ idx' = st.idx /\ msg' = st.msg
                  /\ UNCHANGED <<exc, i, chosen, chosen_dt, out, effects>>
             ELSE IF st.kind = "custom"
             THEN /\ pc' = "custom"
                  /\ UNCHANGED <<idx, msg, exc, i, chosen, chosen_dt, out, effects>>
             ELSE IF st.kind = "raise"
             THEN /\ pc' = "raised" /\ exc' = st.name /\ idx' = 0 /\ msg' = ""
                  /\ UNCHANGED <<i, chosen, chosen_dt, out, effects>>
             ELSE /\ Handle(PathOf(files[i + 1], exif), st.val)
                  /\ idx' = 0 /\ msg' = ""
  /\ UNCHANGED <<files, exif, backupDir, args, hasExiftool, platform, fsOrder, candidates,
                 calls>>
  /\ UNCHANGED searchVars

\* interactive_choose lines 181-187: the custom datetime was typed.
Custom ==
  /\ pc = "custom"
  /\ \E raw \in CustomInputs :
       \E st \in {custom_step(idx, raw)} :
       /\ custom' = raw
       /\ IF st.kind = "again"
          THEN /\ pc' = "prompt" /\ idx' = st.idx /\ msg' = st.msg
               /\ UNCHANGED <<exc, i, chosen, chosen_dt, out, effects>>
          ELSE /\ Handle(PathOf(files[i + 1], exif), st.val)
               /\ idx' = 0 /\ msg' = ""
  /\ UNCHANGED <<files, exif, backupDir, args, hasExiftool, platform, fsOrder,
                 candidates, ans, calls>>
  /\ UNCHANGED searchVars

\* Line 103: the loop ends after the last file.
EndLoop ==
  /\ pc = "loop"
  /\ i >= Len(files)
  /\ pc' = "done"
  /\ UNCHANGED <<files, exif, backupDir, args, hasExiftool, platform, fsOrder, exc, i,
                 candidates, chosen, chosen_dt, idx, ans, custom, msg, out, effects, calls>>
  /\ UNCHANGED searchVars

Init ==
  /\ files = [k \in 1..MaxFiles |-> FileAt(k)]
  /\ exif = <<>>
  /\ backupDir = BackupFiles
  /\ args \in ArgChoices
  /\ \E env \in EnvChoices : hasExiftool = env.hasExiftool /\ platform = env.platform
  /\ fsOrder = <<>>
  /\ pc = "loop"
  /\ exc = "none"
  /\ i = 0
  /\ candidates = <<>>
  /\ chosen = Unbound
  /\ chosen_dt = None
  /\ idx = 0
  /\ ans = <<>>
  /\ custom = <<>>
  /\ msg = ""
  /\ out = <<>>
  /\ effects = <<>>
  /\ calls = <<>>
  /\ found = <<>>
  /\ requested_tag_names = <<>>
  /\ evaluated = <<>>
  /\ arg = None
  /\ result = None

Next == BeginFile \/ Answer \/ Custom \/ EndLoop

Spec == Init /\ [][Next]_vars

\* ------------------------------------------------------------------------
\* date_mapper.gather_candidates, called directly
\* ------------------------------------------------------------------------

\* The selector lists of a direct call.
SelectorChoices ==
  { <<>>, <<"*">>, <<"ALL", DTO>>,
    <<DTO, "foo:bar", CD, SUB, GPS, XMP, "File:System:FileModifyDate">>,
    <<"File:System:CreatedDate">>,
    <<"File:System:FileCreateDate", "File:System:FileInodeChangeDate">>,
    <<"File:System:FileAccessDate", CD, "File:System:CreatedDate", CD,
      "File:System:FileInodeChangeDate", "FileModifyDate">> }

\* The arguments of a direct call: backups_path None or the folder,
\* backups_tags None or a list.
GatherArgChoices ==
  { [src_tags |-> t, backups_given |-> FALSE, backups_tags |-> NotGiven] :
      t \in SelectorChoices }
  \cup { [src_tags |-> <<DTO>>, backups_given |-> TRUE, backups_tags |-> b] :
           b \in {NotGiven, Given(<<>>), Given(<<CD>>), Given(<<"*">>)} }

\* The machine of a direct call: macOS exposes the birth time, Linux does not.
GatherEnvChoices ==
  { [hasExiftool |-> TRUE, platform |-> "linux"],
    [hasExiftool |-> TRUE, platform |-> "macos"],
    [hasExiftool |-> FALSE, platform |-> "macos"],
    [hasExiftool |-> FALSE, platform |-> "linux"] }

GatherInit ==
  /\ files = <<FileAt(1)>>
  /\ exif \in ExifChoices
  /\ backupDir = BackupFiles
  /\ args \in GatherArgChoices
  /\ \E env \in GatherEnvChoices :
       hasExiftool = env.hasExiftool /\ platform = env.platform
  /\ fsOrder = <<>>
  /\ pc = "call"
  /\ exc = "none"
  /\ i = 0
  /\ candidates = <<>>
  /\ chosen = Unbound
  /\ chosen_dt = None
  /\ idx = 0
  /\ ans = <<>>
  /\ custom = <<>>
  /\ msg = ""
  /\ out = <<>>
  /\ effects = <<>>
  /\ calls = <<>>
  /\ found = <<>>
  /\ requested_tag_names = <<>>
  /\ evaluated = <<>>
  /\ arg = None
  /\ result = None

\* Whether the call iterates ALL_FS_TAGS.
GatherNeedsOrder ==
  \/ IsWild(args.src_tags)
  \/ /\ args.backups_given
     /\ GlobBackups(backupDir, files[1]) # <<>>
     /\ IsWild(IF args.backups_tags.given THEN args.backups_tags.tags ELSE <<"*">>)

\* gather_candidates(files[0], src_tags, backups_path, backups_tags)
Gather ==
  /\ pc = "call"
  /\ \E order \in (IF GatherNeedsOrder THEN Perms ELSE {<<>>}) :
     \E g \in {gather_candidates(PathOf(files[1], exif), args.src_tags,
                                 [given |-> args.backups_given, dir |-> backupDir],
                                 args.backups_tags, order)} :
       /\ fsOrder' = order
       /\ IF g.exc
          THEN pc' = "raised" /\ exc' = g.val /\ candidates' = candidates
          ELSE pc' = "returned" /\ exc' = exc /\ candidates' = g.val
  /\ UNCHANGED <<files, exif, backupDir, args, hasExiftool, platform, i, chosen,
                 chosen_dt, idx, ans, custom, msg, out, effects, calls>>
  /\ UNCHANGED searchVars

GatherNext == Gather

GatherSpec == GatherInit /\ [][GatherNext]_vars

\* ------------------------------------------------------------------------
\* date_mapper.apply_destinations, called directly
\* ------------------------------------------------------------------------

\* The destination lists of a direct call.
DestListChoices ==
  { <<>>, <<"File:System:FileModifyDate">>, <<"EXIF:AllDates">>,
    <<"File:System:FileModifyDate", "EXIF:AllDates", "File:System:CreatedDate">>,
    <<"File:System:FileInodeChangeDate", XMP, "File:System:FileAccessDate">>,
    <<"EXIF:AllDates", "File:System:CreatedDate", "EXIF:AllDates">>,
    <<"File:System:FileInodeChangeDate", "File:System:FileCreateDate">> }

ApplyArgChoices ==
  { [dest_tags |-> d, dry_run |-> r, update_systime |-> u] :
      d \in DestListChoices, r \in BOOLEAN, u \in BOOLEAN }

\* The machine of a direct call.
ApplyEnvChoices ==
  { [hasExiftool |-> e, platform |-> p] :
      e \in BOOLEAN, p \in {"linux", "macos", "macos_setfile"} }

\* The call's dt is chosen_dt.
ApplyInit ==
  /\ files = <<FileAt(1)>>
  /\ exif = <<>>
  /\ backupDir = <<>>
  /\ args \in ApplyArgChoices
  /\ \E env \in ApplyEnvChoices :
       hasExiftool = env.hasExiftool /\ platform = env.platform
  /\ fsOrder = <<>>
  /\ pc = "call"
  /\ exc = "none"
  /\ i = 0
  /\ candidates = <<>>
  /\ chosen = Unbound
  /\ chosen_dt \in {D1, D2}
  /\ idx = 0
  /\ ans = <<>>
  /\ custom = <<>>
  /\ msg = ""
  /\ out = <<>>
  /\ effects = <<>>
  /\ calls = <<>>
  /\ found = <<>>
  /\ requested_tag_names = <<>>
  /\ evaluated = <<>>
  /\ arg = None
  /\ result = None

\* apply_destinations(files[0], dest_tags, chosen_dt, dry_run, update_systime);
\* here effects keeps the writers' effects in full.
Apply ==
  /\ pc = "call"
  /\ \E failAt \in FailChoices :
     \E r \in {apply_destinations(PathOf(files[1], exif), args.dest_tags, chosen_dt,
                                  args.dry_run, args.update_systime, failAt)} :
       /\ effects' = r.effs
       /\ calls' = r.calls
       /\ IF r.exc THEN pc' = "raised" /\ exc' = r.name
          ELSE pc' = "returned" /\ exc' = exc
  /\ UNCHANGED <<files, exif, backupDir, args, hasExiftool, platform, fsOrder, i,
                 candidates, chosen, chosen_dt, idx, ans, custom, msg, out>>
  /\ UNCHANGED searchVars

ApplyNext == Apply

ApplySpec == ApplyInit /\ [][ApplyNext]_vars

\* ------------------------------------------------------------------------
\* search: the compare mini-language
\* ------------------------------------------------------------------------

\* The characters of the compare expressions and of the metadata of the
\* search, in code point order.
Chars ==
  <<" ", "!", "&", "+", "-", ".", "0", "1", "2", "3", "4", "5", "6", "7", "8", "9",
    ":", "<", "=", ">">> \o Upper \o <<"_">> \o Lowers \o <<"|">>

\* A character's rank in code point order.
Ord(c) == CHOOSE k \in 1..Len(Chars) : Chars[k] = c

\* a < b and a <= b for Python strings: by code points, a proper prefix first.
RECURSIVE StrLt(_, _)
StrLt(a, b) ==
  IF b = <<>> THEN FALSE
  ELSE IF a = <<>> THEN TRUE
  ELSE IF a[1] = b[1] THEN StrLt(Tail(a), Tail(b))
  ELSE Ord(a[1]) < Ord(b[1])

StrLe(a, b) == a = b \/ StrLt(a, b)

\* `sub in s`
Contains(s, sub) ==
  \E p \in 0..(Len(s) - Len(sub)) : SubSeq(s, p + 1, p + Len(sub)) = sub

\* s.split(sep) for a one-character separator.
RECURSIVE SplitAt(_, _, _, _)
SplitAt(s, sep, from, pos) ==
  IF pos > Len(s) THEN <<SubSeq(s, from, Len(s))>>
  ELSE IF s[pos] = sep
  THEN <<SubSeq(s, from, pos - 1)>> \o SplitAt(s, sep, pos + 1, pos + 1)
  ELSE SplitAt(s, sep, from, pos + 1)

\* A variant of Pieces that keeps the empty pieces.
Pieces_all(s, sep) ==
  LET F(ps) == [k \in 1..Len(ps) |-> Strip(ps[k])] IN F(SplitAt(s, sep, 1, 1))

\* [t.strip() for t in re.split(r"\s*<sep>\s*", s) if t.strip()]: the blanks
\* the separator's pattern takes are blanks strip() would drop.
Pieces(s, sep) ==
  LET F(ps) == SelectSeq([k \in 1..Len(ps) |-> Strip(ps[k])], LAMBDA t : t # <<>>)
  IN F(SplitAt(s, sep, 1, 1))

\* The alternatives of _CMP_RE's operator group, in the pattern's order.
CMP_OPS == << <<">", "=">>, <<"<", "=">>, <<"<", ">">>, <<"!", "=">>, <<"=", "=">>,
              <<">">>, <<"<">> >>

\* Whether the k-th operator stands at s[pos] with at least one character
\* after it for the right operand.
OpFits(s, pos, k) ==
  /\ pos + Len(CMP_OPS[k]) <= Len(s)
  /\ SubSeq(s, pos, pos + Len(CMP_OPS[k]) - 1) = CMP_OPS[k]

\* The first alternative that stands at s[pos], or 0.
RECURSIVE OpAt(_, _, _)
OpAt(s, pos, k) ==
  IF k > Len(CMP_OPS) THEN 0
  ELSE IF OpFits(s, pos, k) THEN k
  ELSE OpAt(s, pos, k + 1)

\* The match with the left operand s[lead+1 .. lead+n]: blanks, then the
\* operator, then the rest as the right operand.
CmpTry(s, lead, n) ==
  LET F(p) ==
        LET G(k) ==
              IF k = 0 THEN NoMatch
              ELSE [ok |-> TRUE, a |-> SubSeq(s, lead + 1, lead + n), op |-> CMP_OPS[k],
                    b |-> SubSeq(s, p + Len(CMP_OPS[k]), Len(s))]
        IN G(OpAt(s, p, 1))
  IN F(lead + n + 1 + SpaceRun(s, lead + n + 1))

\* The lazy left operand: the shortest that lets the rest match.
RECURSIVE CmpLazy(_, _, _)
CmpLazy(s, lead, n) ==
  IF lead + n >= Len(s) THEN NoMatch
  ELSE LET F(m) == IF m.ok THEN m ELSE CmpLazy(s, lead, n + 1) IN F(CmpTry(s, lead, n))

\* The greedy leading \s*: all the leading blanks, fewer only if needed.
RECURSIVE CmpLead(_, _)
CmpLead(s, lead) ==
  LET F(m) == IF m.ok \/ lead = 0 THEN m ELSE CmpLead(s, lead - 1)
  IN F(CmpLazy(s, lead, 1))

\* _CMP_RE.match(term): [ok, a, op, b] with the groups a and b as matched.
CMP_RE(term) == CmpLead(term, SpaceRun(term, 1))

\* A variant of AddTag that appends the token again.
AddTag_again(tags, a) == Append(tags, a)

\* parse_compare_tag_names lines 58-61: `if a not in tags: tags.append(a)`
AddTag(tags, a) ==
  IF \E k \in 1..Len(tags) : tags[k] = a THEN tags ELSE Append(tags, a)

\* The and_terms of all the or_terms, in the order the loops visit them.
RECURSIVE TermsFrom(_, _)
TermsFrom(or_terms, k) ==
  IF k > Len(or_terms) THEN <<>>
  ELSE Pieces(or_terms[k], "&") \o TermsFrom(or_terms, k + 1)

\* parse_compare_tag_names lines 52-61, from the k-th term on.
RECURSIVE TagNames(_, _, _)
TagNames(terms, k, tags) ==
  IF k > Len(terms) THEN tags
  ELSE LET F(m) ==
             IF ~m.ok THEN TagNames(terms, k + 1, tags)
             ELSE TagNames(terms, k + 1, AddTag(AddTag(tags, Strip(m.a)), Strip(m.b)))
       IN F(CMP_RE(terms[k]))

\* search.parse_compare_tag_names; compare is None or a string.
parse_compare_tag_names(compare) ==
  IF compare = None \/ compare.s = <<>> THEN <<>>
  ELSE TagNames(TermsFrom(Pieces(compare.s, "|"), 1), 1, <<>>)

\* str(v) of a JSON number.
RECURSIVE Decimal(_)
Decimal(n) ==
  IF n < 10 THEN <<Digits[n + 1]>> ELSE Decimal(n \div 10) \o <<Digits[(n % 10) + 1]>>

\* str(v) if v is not None else None, for the values of the search's metadata.
StrOrNone(v) == IF v.t = "int" THEN Str(Decimal(v.n)) ELSE v

\* A variant of find_tag_value in which the last matching key wins.
find_tag_value_last(tags, name) ==
  LET hit == {k \in 1..Len(tags) : Contains(Lower(tags[k].tag), Lower(name))} IN
  IF hit = {} THEN None
  ELSE StrOrNone(tags[CHOOSE k \in hit : \A j \in hit : j <= k].val)

\* search._find_tag_value: the value of the first key that contains name,
\* case ignored; None without such a key, and for a null value.
find_tag_value(tags, name) ==
  LET hit == {k \in 1..Len(tags) : Contains(Lower(tags[k].tag), Lower(name))} IN
  IF hit = {} THEN None
  ELSE StrOrNone(tags[CHOOSE k \in hit : \A j \in hit : k <= j].val)

\* A number, as float() gives it.
Num(n) == [t |-> "num", n |-> n]

\* float(val) succeeds: of the strings modelled, on the decimal digit strings,
\* blanks around them ignored.
IsFloat(s) == Strip(s) # <<>> /\ DigitRun(Strip(s), 1) = Len(Strip(s))

\* search._coerce_value of a string: a datetime, else a number, else the
\* stripped string.
coerce_value(val) ==
  LET F(dt) ==
        IF dt # None THEN dt
        ELSE IF IsFloat(val.s) THEN Num(ToInt(Strip(val.s)))
        ELSE Str(Strip(val.s))
  IN F(parse_date(val))

IsDatetime(v) == "y" \in DOMAIN v

\* What ordering compares: the instant to the second (a naive datetime's own
\* fields), then the microseconds.
Instant(dt) == <<ToTimestamp(dt), dt.us>>

InstantLt(x, y) == x[1] < y[1] \/ (x[1] = y[1] /\ x[2] < y[2])

\* Two values Python orders: two datetimes both naive or both aware, two
\* numbers, two strings. Any other pair makes <, <=, >, >= raise TypeError.
Ordered(a, b) ==
  IF IsDatetime(a) \/ IsDatetime(b)
  THEN IsDatetime(a) /\ IsDatetime(b) /\ a.aware = b.aware
  ELSE a.t = b.t

Less(a, b) ==
  IF IsDatetime(a) THEN InstantLt(Instant(a), Instant(b))
  ELSE IF a.t = "num" THEN a.n < b.n
  ELSE StrLt(a.s, b.s)

\* a == b: values of different kinds, and a naive and an aware datetime,
\* are unequal.
Equal(a, b) ==
  IF ~Ordered(a, b) THEN FALSE
  ELSE IF IsDatetime(a) THEN Instant(a) = Instant(b)
  ELSE a = b

\* _OP_MAP[op](a, b)
OpFunc(op, a, b) ==
  IF op = <<"=", "=">> THEN Ret(Equal(a, b))
  ELSE IF op \in {<<"!", "=">>, <<"<", ">">>} THEN Ret(~Equal(a, b))
  ELSE IF ~Ordered(a, b) THEN Raise("TypeError")
  ELSE IF op = <<"<">> THEN Ret(Less(a, b))
  ELSE IF op = <<">">> THEN Ret(Less(b, a))
  ELSE IF op = <<"<", "=">> THEN Ret(~Less(b, a))
  ELSE Ret(~Less(a, b))

\* What _eval_cmp_term did with a term: the exception it raised if any, the
\* two resolved strings, whether the operator raised on the coerced values,
\* and the result.
Evaluated(term, a, b, fell, res) ==
  [exc |-> FALSE, term |-> term, a_val_raw |-> a, b_val_raw |-> b, fell_back |-> fell,
   res |-> res]

Invalid(term) ==
  [exc |-> TRUE, term |-> term, a_val_raw |-> None, b_val_raw |-> None,
   fell_back |-> FALSE, res |-> FALSE]

\* A variant of Fallback that gives up.
Fallback_false(op, a_val_raw, b_val_raw) == FALSE

\* _eval_cmp_term line 130: the operator on the two raw strings.
Fallback(op, a_val_raw, b_val_raw) == OpFunc(op, a_val_raw, b_val_raw).val

\* _eval_cmp_term lines 121-130.
Compare(term, op, a_val_raw, b_val_raw) ==
  LET F(r) ==
        IF r.exc THEN Evaluated(term, a_val_raw, b_val_raw, TRUE,
                                Fallback(op, a_val_raw, b_val_raw))
        ELSE Evaluated(term, a_val_raw, b_val_raw, FALSE, r.val)
  IN F(OpFunc(op, coerce_value(a_val_raw), coerce_value(b_val_raw)))

\* _eval_cmp_term lines 109-119: the tag's value if a key matches, else the
\* operand as a literal.
Resolve(tags, raw_s) ==
  LET F(v) == IF v = None THEN Str(raw_s) ELSE v IN F(find_tag_value(tags, raw_s))

\* search._eval_cmp_term
eval_cmp_term(tags, term) ==
  LET F(m) ==
        IF ~m.ok THEN Invalid(term)
        ELSE Compare(term, m.op, Resolve(tags, Strip(m.a)), Resolve(tags, Strip(m.b)))
  IN F(CMP_RE(term))

\* A variant of TermResult that lets a term that raised count as true.
TermResult_lenient(r) == [r EXCEPT !.res = TRUE]

\* search_files lines 190-193: a term that raised is false.
TermResult(r) == IF r.exc THEN [r EXCEPT !.res = FALSE] ELSE r

\* A variant of AndThen for which one true term satisfies the group.
AndThen_any(r, rest) ==
  IF r.res THEN [ok |-> TRUE, trace |-> <<r>>]
  ELSE [ok |-> rest.ok, trace |-> <<r>> \o rest.trace]

\* search_files lines 194-196: a false term ends its group.
AndThen(r, rest) ==
  IF ~r.res THEN [ok |-> FALSE, trace |-> <<r>>]
  ELSE [ok |-> rest.ok, trace |-> <<r>> \o rest.trace]

\* search_files lines 188-196: the and_terms from the k-th on.
RECURSIVE GroupFrom(_, _, _)
GroupFrom(tags, and_terms, k) ==
  IF k > Len(and_terms) THEN [ok |-> TRUE, trace |-> <<>>]
  ELSE AndThen(TermResult(eval_cmp_term(tags, and_terms[k])),
               GroupFrom(tags, and_terms, k + 1))

\* search_files lines 197-199: a satisfied group ends the evaluation.
OrElse(g, rest) ==
  IF g.ok THEN g ELSE [ok |-> rest.ok, trace |-> g.trace \o rest.trace]

\* search_files lines 186-199: the or_terms from the k-th on.
RECURSIVE OrFrom(_, _, _)
OrFrom(tags, or_terms, k) ==
  IF k > Len(or_terms) THEN [ok |-> FALSE, trace |-> <<>>]
  ELSE OrElse(GroupFrom(tags, Pieces(or_terms[k], "&"), 1), OrFrom(tags, or_terms, k + 1))

\* search_files lines 181-199: whether the file matches, and the terms
\* evaluated for it.
Matches(tags, compare) ==
  IF compare = None \/ compare.s = <<>> THEN [ok |-> TRUE, trace |-> <<>>]
  ELSE OrFrom(tags, Pieces(compare.s, "|"), 1)

\* ------------------------------------------------------------------------
\* search.search_files
\* ------------------------------------------------------------------------

\* Keys of the metadata mapping, as strings the search inspects.
K_SOURCE ==
  <<"S", "o", "u", "r", "c", "e", "F", "i", "l", "e">>
K_DTO ==
  <<"E", "X", "I", "F", ":", "E", "x", "i", "f", "I", "F", "D", ":", "D", "a", "t",
    "e", "T", "i", "m", "e", "O", "r", "i", "g", "i", "n", "a", "l">>
K_CD ==
  <<"E", "X", "I", "F", ":", "E", "x", "i", "f", "I", "F", "D", ":", "C", "r", "e",
    "a", "t", "e", "D", "a", "t", "e">>
K_SUB ==
  <<"E", "X", "I", "F", ":", "E", "x", "i", "f", "I", "F", "D", ":", "S", "u", "b",
    "S", "e", "c", "T", "i", "m", "e">>
K_XMP ==
  <<"X", "M", "P", ":", "X", "M", "P", "-", "x", "m", "p", ":", "M", "e", "t", "a",
    "d", "a", "t", "a", "D", "a", "t", "e">>
K_FCD ==
  <<"F", "i", "l", "e", ":", "S", "y", "s", "t", "e", "m", ":", "F", "i", "l", "e",
    "C", "r", "e", "a", "t", "e", "D", "a", "t", "e">>


\* Comparison terms: well-formed ones over tags and literals, and malformed ones.
\* DateTimeOriginal > CreateDate
T_DT_GT ==
  <<"D", "a", "t", "e", "T", "i", "m", "e", "O", "r", "i", "g", "i", "n", "a", "l",
    " ", ">", " ", "C", "r", "e", "a", "t", "e", "D", "a", "t", "e">>
\* createdate == 2019:12:31 23:59:58
T_LITERAL ==
  <<"c", "r", "e", "a", "t", "e", "d", "a", "t", "e", " ", "=", "=", " ", "2", "0",
    "1", "9", ":", "1", "2", ":", "3", "1", " ", "2", "3", ":", "5", "9", ":", "5",
    "8">>
\* Date < 5
T_DT_NUM ==
  <<"D", "a", "t", "e", " ", "<", " ", "5">>
\* SubSec >= 700
T_NUM ==
  <<"S", "u", "b", "S", "e", "c", " ", ">", "=", " ", "7", "0", "0">>
\* MetadataDate > CreateDate
T_AWARE ==
  <<"M", "e", "t", "a", "d", "a", "t", "a", "D", "a", "t", "e", " ", ">", " ", "C",
    "r", "e", "a", "t", "e", "D", "a", "t", "e">>
\* Canon != Nikon
T_STR ==
  <<"C", "a", "n", "o", "n", " ", "!", "=", " ", "N", "i", "k", "o", "n">>
\* Make == Make
T_SAME ==
  <<"M", "a", "k", "e", " ", "=", "=", " ", "M", "a", "k", "e">>
\* FileCreateDate <= ModifyDate
T_BIRTH ==
  <<"F", "i", "l", "e", "C", "r", "e", "a", "t", "e", "D", "a", "t", "e", " ", "<",
    "=", " ", "M", "o", "d", "i", "f", "y", "D", "a", "t", "e">>
\* DateTimeOriginal
T_NOOP ==
  <<"D", "a", "t", "e", "T", "i", "m", "e", "O", "r", "i", "g", "i", "n", "a", "l">>
\* == 5
T_NOLEFT ==
  <<"=", "=", " ", "5">>
\* SubSec >=
T_SHORT ==
  <<"S", "u", "b", "S", "e", "c", " ", ">", "=">>
\* SubSec<>732
T_FALSE ==
  <<"S", "u", "b", "S", "e", "c", "<", ">", "7", "3", "2">>

\* What exiftool reports for the k-th file of the search: the file's name
\* first, string values, a JSON number and a JSON null.
SearchTags(k) ==
  CASE k = 1 ->
         <<Entry(K_SOURCE, Str(<<"a", ".", "j", "p", "g">>)),
           Entry(K_DTO, Str(StrftimeExif(D2))), Entry(K_CD, Str(StrftimeExif(D1))),
           Entry(K_SUB, Str(<<"7", "3", "2">>)),
           Entry(K_XMP, Str(StrftimeExif(D2) \o <<"+", "0", "1", ":", "0", "0">>))>>
    [] k = 2 ->
         <<Entry(K_SOURCE, Str(<<"b", ".", "j", "p", "g">>)),
           Entry(K_DTO, None), Entry(K_CD, Str(StrftimeExif(D2))),
           Entry(K_SUB, [t |-> "int", n |-> 732])>>
    [] k = 3 ->
         <<Entry(K_SOURCE, Str(<<"c", ".", "j", "p", "g">>)),
           Entry(K_CD, Str(StrftimeDash(D1)))>>
    [] OTHER -> <<>>

SearchFileAt(k) == [name |-> Names[k], stat |-> StatAt(k), exif |-> SearchTags(k)]

SearchTerms ==
  {T_DT_GT, T_LITERAL, T_DT_NUM, T_NUM, T_AWARE, T_STR, T_SAME, T_BIRTH, T_NOOP,
   T_NOLEFT, T_SHORT, T_FALSE}

\* Expressions made of separators and blanks only, and with empty pieces.
BlankExprs ==
  { <<" ">>, <<"&">>, <<"|">>, <<"|", " ", "|">>, <<" ", "&", "&", " ">>,
    <<"&", " ", "|">>, <<"|", "&">>,
    T_FALSE \o <<" ", "|", " ", "&">>, T_FALSE \o <<"&">>, <<"|">> \o T_FALSE,
    T_SAME \o <<" ", "&", " ", "&", " ">> \o T_FALSE }

\* The compare argument: absent, empty, one term, two terms joined by & or
\* by |, and | and & together.
CompareChoices ==
  {None, Str(<<>>)}
  \cup { Str(e) : e \in BlankExprs }
  \cup { Str(a) : a \in SearchTerms }
  \cup { Str(a \o <<" ", "&", " ">> \o b) : a, b \in SearchTerms }
  \cup { Str(a \o <<"|">> \o b) : a, b \in SearchTerms }
  \cup { Str(T_FALSE \o <<" ", "|", " ">> \o a \o <<"&">> \o b) :
           a \in {T_DT_GT, T_STR, T_NOOP}, b \in {T_NUM, T_FALSE, T_NOLEFT} }
  \cup { Str(a \o <<" ", "&", " ">> \o b \o <<" ", "|", " ">> \o T_STR \o <<"&">> \o a) :
           a \in {T_DT_GT, T_FALSE}, b \in {T_NUM, T_FALSE} }

SearchEnvChoices ==
  { [hasExiftool |-> e, platform |-> p] : e \in BOOLEAN, p \in {"linux", "macos"} }

SearchInit ==
  /\ files = [k \in 1..MaxFiles |-> SearchFileAt(k)]
  /\ exif = <<>>
  /\ backupDir = <<>>
  /\ args \in { [compare |-> c, move_to |-> None, dry_run |-> FALSE] : c \in CompareChoices }
  /\ \E env \in SearchEnvChoices :
       hasExiftool = env.hasExiftool /\ platform = env.platform
  /\ fsOrder = <<>>
  /\ pc = "call"
  /\ exc = "none"
  /\ i = 0
  /\ candidates = <<>>
  /\ chosen = Unbound
  /\ chosen_dt = None
  /\ idx = 0
  /\ ans = <<>>
  /\ custom = <<>>
  /\ msg = ""
  /\ out = <<>>
  /\ effects = <<>>
  /\ calls = <<>>
  /\ found = <<>>
  /\ requested_tag_names = <<>>
  /\ evaluated = <<>>
  /\ arg = None
  /\ result = None

\* search_files lines 163-166.
WantsCreate(names) ==
  \E k \in 1..Len(names) :
    \/ /\ Contains(Lower(names[k]), <<"f", "i", "l", "e">>)
       /\ Contains(Lower(names[k]), <<"c", "r", "e", "a", "t", "e">>)
    \/ SelectSeq(Lower(names[k]), LAMBDA c : c # " ")
         = <<"f", "i", "l", "e", ":", "s", "y", "s", "t", "e", "m", ":", "f", "i", "l", "e",
             "c", "r", "e", "a", "t", "e", "d", "a", "t", "e">>

\* search_files lines 156-179: the file's metadata, with the birth time under
\* File:System:FileCreateDate when the expression asks for it, the platform
\* has it and exiftool reported no such key.
TagsFor(path, names) ==
  LET F(tags) ==
        IF names # <<>> /\ WantsCreate(names) /\ hasBirthtime /\ ~HasKey(tags, K_FCD)
        THEN Append(tags, Entry(K_FCD, Str(StrftimeExif(FromTimestamp(path.stat.birthtime)))))
        ELSE tags
  IN F(read_all_tags(path))

\* search_files line 149.
SearchStart ==
  /\ pc = "call"
  /\ requested_tag_names' = parse_compare_tag_names(args.compare)
  /\ pc' = "loop"
  /\ UNCHANGED <<files, exif, backupDir, args, hasExiftool, platform, fsOrder, exc, i,
                 candidates, chosen, chosen_dt, idx, ans, custom, msg, out, effects, calls,
                 found, evaluated, arg, result>>

\* search_files lines 151-222, one file; move_to is None.
SearchFile ==
  /\ pc = "loop"
  /\ i < Len(files)
  /\ \E tags \in {TagsFor(files[i + 1], requested_tag_names)} :
     \E m \in {Matches(tags, args.compare)} :
       /\ exif' = tags
       /\ evaluated' = m.trace
       /\ found' = IF m.ok THEN Append(found, files[i + 1].name) ELSE found
  /\ i' = i + 1
  /\ UNCHANGED <<files, backupDir, args, hasExiftool, platform, fsOrder, pc, exc,
                 candidates, chosen, chosen_dt, idx, ans, custom, msg, out, effects, calls,
                 requested_tag_names, arg, result>>

\* search_files line 224.
SearchReturn ==
  /\ pc = "loop"
  /\ i >= Len(files)
  /\ pc' = "returned"
  /\ UNCHANGED <<files, exif, backupDir, args, hasExiftool, platform, fsOrder, exc, i,
                 candidates, chosen, chosen_dt, idx, ans, custom, msg, out, effects, calls>>
  /\ UNCHANGED searchVars

SearchNext == SearchStart \/ SearchFile \/ SearchReturn

SearchSpec == SearchInit /\ [][SearchNext]_vars

\* ------------------------------------------------------------------------
\* utils.parse_date and utils.infer_from_filename, called directly
\* ------------------------------------------------------------------------

\* The longest string of digits handed to parse_date.
MaxDigits == 8

DigitAlphabet == {"0", "1"}

\* The strings of up to MaxDigits digits, bare and between blanks.
DigitStrings ==
  UNION { { s, <<" ">> \o s \o <<"\t">> } :
          s \in UNION { [1..n -> DigitAlphabet] : n \in 0..MaxDigits } }

\* Timestamps as metadata and users write them, and strings that hold none.
DateTexts ==
  { StrftimeExif(D1), StrftimeDash(D2), <<" ">> \o StrftimeExif(D2) \o <<" ">>,
    SubSeq(StrftimeExif(D1), 1, 10),
    SubSeq(StrftimeDash(D2), 1, 10) \o <<"T">> \o SubSeq(StrftimeDash(D2), 12, 19),
    SubSeq(StrftimeDash(D2), 1, 10) \o <<"T">> \o SubSeq(StrftimeDash(D2), 12, 19) \o <<"Z">>,
    SubSeq(StrftimeDash(D2), 1, 10) \o <<",">> \o SubSeq(StrftimeDash(D2), 12, 19),
    StrftimeExif(D1) \o <<".", "7", "3", "2">>,
    StrftimeExif(D1) \o <<".", "7", "3", "2", "+", "1", "3", ":", "0", "0">>,
    StrftimeExif(D2) \o <<"-", "0", "5", ":", "0", "0">>,
    <<"7", "3", "2">>, <<"1", "2", "3", "4", "5", "6", "7", "8">>,
    <<"2", "0", "2", "0", "0", "1", "0", "2">>,
    <<"2", "0", "2", "0", "0", "1", "0", "2", "0", "3", "0", "4">>,
    <<"n", "o", "t", "a", "d", "a", "t", "e">>,
    <<"P", "X", "L", "_", "f", "o", "o", "b", "a", "r">> }

\* What parse_date is called with: strings, and values that are no string.
ParseInputs ==
  { Str(s) : s \in DigitStrings \cup DateTexts }
  \cup { None, [t |-> "int", n |-> 732], [t |-> "int", n |-> 0], [t |-> "list", s |-> <<>>] }

NameDates == { <<"2", "0", "2", "3", "0", "1", "1", "5">>, <<"2", "0", "2", "3", "1", "3", "4", "5">> }

NameTimes ==
  { <<"1", "4", "2", "3", "0", "0">>, <<"2", "5", "6", "1", "9", "9">>,
    <<"1", "4", "2", "3", "0", "0", "7">> }

NamePrefixes == { <<>>, <<"P", "X", "L", "_">>, <<"I", "M", "G", "_">>, <<"x">> }

NameEnds == { <<>>, <<".", "j", "p", "g">> }

\* The file names infer_from_filename is called with.
FileNames ==
  { p \o d \o sep \o t \o e :
      p \in NamePrefixes, d \in NameDates, sep \in { <<"_">>, <<"-">> }, t \in NameTimes,
      e \in NameEnds }
  \cup { p \o d \o e : p \in NamePrefixes, d \in NameDates, e \in NameEnds }
  \cup { <<"2", "0", "2", "0", "-", "0", "4", "-", "1", "9", " ", "1", "1", ".", "1", "3",
           ".", "5", "4", ".", "j", "p", "g">>,
         <<"2", "0", "2", "3", "_", "0", "1", "_", "0", "2", ".", "j", "p", "g">>,
         <<"2", "0", "2", "3", "_", "1", "3", "_", "4", "5", ".", "j", "p", "g">>,
         <<"n", "o", "t", "e", "s", ".", "t", "x", "t">>,
         <<"P", "X", "L", "_", "f", "o", "o", "b", "a", "r">>, <<>> }

NameInputs == { Str(s) : s \in FileNames } \cup { None }

\* One call of parse_date or of infer_from_filename on one input.
UtilsInit ==
  /\ files = <<>>
  /\ exif = <<>>
  /\ backupDir = <<>>
  /\ \/ args = [call |-> "parse_date"] /\ arg \in ParseInputs
     \/ args = [call |-> "infer_from_filename"] /\ arg \in NameInputs
  /\ hasExiftool = FALSE
  /\ platform = "linux"
  /\ fsOrder = <<>>
  /\ pc = "call"
  /\ exc = "none"
  /\ i = 0
  /\ candidates = <<>>
  /\ chosen = Unbound
  /\ chosen_dt = None
  /\ idx = 0
  /\ ans = <<>>
  /\ custom = <<>>
  /\ msg = ""
  /\ out = <<>>
  /\ effects = <<>>
  /\ calls = <<>>
  /\ found = <<>>
  /\ requested_tag_names = <<>>
  /\ evaluated = <<>>
  /\ result = None

\* utils.parse_date(arg)
ParseDate ==
  /\ pc = "call"
  /\ args.call = "parse_date"
  /\ result' = parse_date(arg)
  /\ pc' = "parsed"
  /\ UNCHANGED <<files, exif, backupDir, args, hasExiftool, platform, fsOrder, exc, i,
                 candidates, chosen, chosen_dt, idx, ans, custom, msg, out, effects,
                 calls, found, requested_tag_names, evaluated, arg>>

\* utils.infer_from_filename(arg)
InferFromFilename ==
  /\ pc = "call"
  /\ args.call = "infer_from_filename"
  /\ result' \in infer_from_filename(arg)
  /\ pc' = "inferred"
  /\ UNCHANGED <<files, exif, backupDir, args, hasExiftool, platform, fsOrder, exc, i,
                 candidates, chosen, chosen_dt, idx, ans, custom, msg, out, effects,
                 calls, found, requested_tag_names, evaluated, arg>>

UtilsNext == ParseDate \/ InferFromFilename

UtilsSpec == UtilsInit /\ [][UtilsNext]_vars

\* ------------------------------------------------------------------------
\* set_dates.cmd_set_dates with interactive_choose replaced by a stub
\* ------------------------------------------------------------------------

\* The longest list of replies a stub holds.
MaxReplies == 3

\* What a stub of interactive_choose hands back.
StubReplies ==
  { ChosenStr("next"), ChosenStr("previous"), ChosenStr("quit"), ChosenNone, ChosenDt(D1) }

\* The stubs: arg.s is the list of replies, arg.k the calls made so far.
StubChoices ==
  { [t |-> "list", s |-> q, k |-> 0] :
      q \in UNION { [1..n -> StubReplies] : n \in 0..MaxReplies } }

\* The stub's reply to its next call: the next of its list, None once the
\* list is used up.
Reply(stub) == IF stub.k < Len(stub.s) THEN stub.s[stub.k + 1] ELSE ChosenNone

\* The runs of the stubbed command: the selectors give two candidates, one or
\* none; one machine.
StubArgChoices ==
  { a \in ArgChoices : ~a.backups_given /\ ~a.dry_run /\ a.src_tags \in {<<DTO, CD>>, <<DTO>>} }

StubInit ==
  /\ files = [k \in 1..MaxFiles |-> FileAt(k)]
  /\ exif = <<>>
  /\ backupDir = BackupFiles
  /\ args \in StubArgChoices
  /\ hasExiftool = TRUE
  /\ platform = "linux"
  /\ fsOrder = <<>>
  /\ pc = "loop"
  /\ exc = "none"
  /\ i = 0
  /\ candidates = <<>>
  /\ chosen = Unbound
  /\ chosen_dt = None
  /\ idx = 0
  /\ ans = <<>>
  /\ custom = <<>>
  /\ msg = ""
  /\ out = <<>>
  /\ effects = <<>>
  /\ calls = <<>>
  /\ found = <<>>
  /\ requested_tag_names = <<>>
  /\ evaluated = <<>>
  /\ arg \in StubChoices
  /\ result = None

\* Lines 103-146 for one file, the chooser being the stub.
StubbedFile ==
  /\ pc = "loop"
  /\ i < Len(files)
  /\ \E e \in ExifChoices :
       \E path \in {PathOf(files[i + 1], e)} :
       \E order \in (IF fsOrder # <<>> THEN {fsOrder}
                     ELSE IF NeedsOrder(path) THEN Perms ELSE {<<>>}) :
         \E g \in {gather_candidates(path, args.src_tags,
                                    [given |-> args.backups_given, dir |-> backupDir],
                                    NormBackupsTags(args.backups_tags), order)} :
            /\ exif' = e
            /\ fsOrder' = order
            /\ IF g.exc
               THEN /\ pc' = "raised" /\ exc' = g.val
                    /\ UNCHANGED <<i, candidates, chosen, chosen_dt, out, effects, arg>>
               ELSE /\ candidates' = g.val
                    /\ IF ShouldChoose(args.interactive, g.val)
                       THEN /\ Handle(path, Reply(arg))
                            /\ arg' = [arg EXCEPT !.k = arg.k + 1]
                       ELSE /\ Conclude(path, IF g.val # <<>> THEN g.val[1].dt ELSE None)
                            /\ UNCHANGED <<chosen, arg>>
  /\ UNCHANGED <<files, backupDir, args, hasExiftool, platform, calls, idx, ans, custom,
                 msg, found, requested_tag_names, evaluated, result>>

StubNext == StubbedFile \/ EndLoop

StubSpec == StubInit /\ [][StubNext]_vars

\* ------------------------------------------------------------------------
\* Properties
\* ------------------------------------------------------------------------

\* A step of the prompt that read the answer a (stripped and lowered).
AnswerStep(a) == pc = "prompt" /\ ans' = a

\* A step of the loop that gathered the candidates of the next file.
BeganFile == pc = "loop" /\ i < Len(files) /\ ~(pc' = "raised" /\ exc' = "AttributeError")

\* The step committed nothing: no choice, no report, no write, same file.
NothingCommitted == UNCHANGED <<chosen, chosen_dt, i, out, effects, candidates, exc>>

\* C1: the candidates gather_candidates returned hold no two entries whose
\* datetimes have the same ISO-8601 serialization.
C1_NoTwoCandidatesShareTimestamp ==
  \A a, b \in 1..Len(candidates) :
    a # b => Isoformat(candidates[a].dt) # Isoformat(candidates[b].dt)

\* C2: a candidate labelled "backup: <rel>: " holds what its selector reads
\* in the backup file <rel>: that file's metadata and filesystem attributes.
C2_BackupCandidatesReadTheBackupFile ==
  \A k \in 1..Len(candidates) :
    candidates[k].prefix.kind = "backup" =>
      \E b \in 1..Len(backupDir) :
        /\ backupDir[b].rel = candidates[k].prefix.label
        /\ TagValue(backupDir[b], read_all_tags(backupDir[b]), candidates[k].tag)
             = Ret(candidates[k].dt)

\* C3, as stated: for each file the prompt is entered if and only if
\* force_interactive is true or there is more than one candidate.
C3_PromptIffForcedOrSeveral ==
  [][BeganFile =>
       ((pc' = "prompt") <=> (args.interactive \/ Len(candidates') > 1))]_vars

\* C3, amended: the operator is prompted if and only if force_interactive is
\* true or there is more than one candidate, and there is a candidate at all;
\* with force_interactive and no candidate the chooser returns None at once
\* and the file is reported as skipped; without force_interactive the sole
\* candidate is accepted with no prompt, and no date is chosen when there is
\* none.
C3_PromptIffForcedOrSeveralAndAny ==
  [][BeganFile =>
       /\ (pc' = "prompt") <=>
            ((args.interactive \/ Len(candidates') > 1) /\ candidates' # <<>>)
       /\ (args.interactive /\ candidates' = <<>>) =>
            /\ chosen' = ChosenNone
            /\ out' = Append(out, Line("SKIPPED", files[i + 1]))
            /\ effects' = effects
       /\ (~args.interactive /\ Len(candidates') = 1) =>
            chosen_dt' = candidates'[1].dt /\ chosen' = chosen
       /\ (~args.interactive /\ candidates' = <<>>) =>
            chosen_dt' = None /\ chosen' = chosen /\ out' = out /\ effects' = effects]_vars

\* With force_interactive, a file without candidates went by unprompted.
C3_Witness ==
  /\ args.interactive /\ candidates = <<>> /\ pc = "loop" /\ i = 1
  /\ out = <<Line("SKIPPED", files[1])>>

\* C4: 'q' at the prompt ends the run with SystemExit: the step gathers and
\* writes nothing, nothing happens afterwards, and the writes made for
\* earlier files stay as they are.
C4_QuitEndsTheRun ==
  [][/\ AnswerStep(<<"q">>) =>
          /\ pc' = "raised" /\ exc' = "SystemExit"
          /\ UNCHANGED <<effects, out, i, candidates, chosen, chosen_dt>>
     /\ pc = "raised" => FALSE]_vars

\* The run ended on 'q' at the second file, after a write to the first.
C4_Witness ==
  /\ pc = "raised" /\ exc = "SystemExit" /\ ans = <<"q">> /\ i = 1
  /\ effects # <<>>
  /\ \A k \in 1..Len(effects) : effects[k].file = files[1].name /\ effects[k].op # "print"

C6_NavigationTokensReturned ==
  [][/\ AnswerStep(<<"n">>) =>
          chosen' = ChosenStr("next") /\ pc' = "loop" /\ i' = i + 1
     /\ AnswerStep(<<"p">>) =>
          /\ chosen' = ChosenStr("previous") /\ pc' = "loop"
          /\ i' = IF i > 0 THEN i - 1 ELSE 0]_vars

\* C7: on 's' nothing is written for the file and the loop goes on with the
\* next file.
C7_SkipWritesNothing ==
  [][AnswerStep(<<"s">>) =>
       /\ effects' = effects /\ chosen' = ChosenNone
       /\ pc' = "loop" /\ i' = i + 1 /\ exc' = exc]_vars

\* The first file was skipped on 's', the second was then handled.
C7_Witness ==
  /\ ~args.interactive /\ Len(out) = 2
  /\ out[1] = Line("SKIPPED", files[1]) /\ out[2] = Line("APPLIED", files[2])
  /\ effects # <<>> /\ \A k \in 1..Len(effects) : effects[k].file = files[2].name

\* The text as the prompt asks for it, "YYYY-MM-DD HH:MM:SS", read field by
\* field: the runs of digits between the separators.
SepPos(s) == SelectSeq([k \in 1..Len(s) |-> k], LAMBDA k : ~IsDecimal(s[k]))
Field(s, j) ==
  LET F(P) == SubSeq(s, P[j] + 1, P[j + 1] - 1) IN F(<<0>> \o SepPos(s) \o <<Len(s) + 1>>)
CustomValue(s) ==
  MkDt(ToInt(Field(s, 1)), ToInt(Field(s, 2)), ToInt(Field(s, 3)),
       ToInt(Field(s, 4)), ToInt(Field(s, 5)), ToInt(Field(s, 6)))
InCustomForm(s) ==
  /\ [k \in 1..Len(SepPos(s)) |-> s[SepPos(s)[k]]] = <<"-", "-", " ", ":", ":">>
  /\ Len(Field(s, 1)) = 4
  /\ \A j \in 2..6 : Len(Field(s, j)) \in 1..2
  /\ ValidFields(CustomValue(s))

\* C8: after 'c', a text of the form YYYY-MM-DD HH:MM:SS is returned as the
\* chosen datetime; any other text is rejected without an exception, the
\* prompt comes again, and the candidates and the highlighted index are as
\* before.
C8_CustomDatetime ==
  [][pc = "custom" =>
       /\ InCustomForm(custom') =>
            /\ chosen' = ChosenDt(CustomValue(custom'))
            /\ chosen_dt' = CustomValue(custom')
            /\ pc' # "prompt"
       /\ ~InCustomForm(custom') =>
            /\ pc' = "prompt" /\ msg' = "Invalid format"
            /\ idx' = idx /\ NothingCommitted]_vars

\* A date that does not exist was rejected while the second candidate was
\* highlighted.
C8_Witness ==
  /\ pc = "prompt" /\ msg = "Invalid format" /\ idx = 1 /\ exc = "none"
  /\ custom = StrftimeDash(MkDt(2021, 2, 30, 5, 6, 7))

\* An answer that int() reads as an index of the list.
IsIndex(a, cands) ==
  a # <<>> /\ (\A k \in 1..Len(a) : IsDecimal(a[k])) /\ ToInt(a) < Len(cands)

\* C9: an answer that is not empty, 'q', 's', 'c', 'n', 'p' or an index of
\* the list is reported as an invalid choice; the prompt comes again with the
\* same index and candidates; nothing is returned or raised.
C9_OtherInputIsInvalid ==
  [][(/\ pc = "prompt"
      /\ ans' \notin {<<>>, <<"q">>, <<"s">>, <<"c">>, <<"n">>, <<"p">>}
      /\ ~IsIndex(ans', candidates)) =>
       /\ pc' = "prompt" /\ msg' = "Invalid choice"
       /\ idx' = idx /\ NothingCommitted]_vars

\* C10: a file without candidates gets no date and no prompt, also with
\* force_interactive; nothing is written for it; no prompt ever shows an
\* empty list.
C10_NoCandidatesNoPrompt ==
  [][/\ (BeganFile /\ candidates' = <<>>) =>
          /\ pc' = "loop" /\ i' = i + 1
          /\ effects' = effects
          /\ args.interactive => chosen' = ChosenNone
          /\ ~args.interactive => chosen_dt' = None
     /\ pc' \in {"prompt", "custom"} => candidates' # <<>>]_vars

\* With exiftool at hand and a selector given, a file without the tag went
\* by under force_interactive.
C10_Witness ==
  /\ args.interactive /\ hasExiftool /\ args.src_tags # <<>>
  /\ candidates = <<>> /\ chosen = ChosenNone /\ chosen_dt = None
  /\ pc = "loop" /\ i = 1 /\ effects = <<>>

\* The file of a direct gather_candidates call.
GatherPath == PathOf(files[1], exif)

\* The metadata fields of the file whose value parses as a date.
ParseableFields ==
  { k \in 1..Len(read_all_tags(GatherPath)) :
      /\ read_all_tags(GatherPath)[k].val.t = "str"
      /\ parse_date(read_all_tags(GatherPath)[k].val) # None }

\* A selector that names a known filesystem attribute or a metadata key whose
\* value parses as a date.
Yields(tag) ==
  \/ tag \in ALL_FS_TAGS
  \/ \E k \in ParseableFields : read_all_tags(GatherPath)[k].tag = tag

\* C11: with selectors other than the wildcard and no backups folder, the
\* call returns one candidate for each selector that names a filesystem
\* attribute or a metadata key with a date, in selector order, and raises
\* nothing; the empty selector list gives the empty list.
C11_OneCandidatePerYieldingSelector ==
  (pc # "call" /\ ~args.backups_given /\ ~IsWild(args.src_tags)) =>
     /\ pc = "returned"
     /\ [k \in 1..Len(candidates) |-> candidates[k].tag]
          = SelectSeq(args.src_tags, Yields)

\* C12: with the wildcard and no backups folder, the call returns one
\* candidate for every metadata field with a date and one for every
\* filesystem attribute.
C12_WildcardCountsBoth ==
  (pc # "call" /\ ~args.backups_given /\ IsWild(args.src_tags)) =>
     /\ pc = "returned"
     /\ Len(candidates) = Cardinality(ParseableFields) + Cardinality(ALL_FS_TAGS)

\* C13: the creation-date selector always gives a datetime and never raises:
\* the birth time where the platform has one, else the file's mtime.
C13_CreatedDateFallsBackToMtime ==
  (pc # "call" /\ ~args.backups_given
     /\ args.src_tags = <<"File:System:CreatedDate">>) =>
     /\ pc = "returned"
     /\ candidates =
          <<Cand(FilePrefix(GatherPath), "File:System:CreatedDate",
                 FromTimestamp(IF hasBirthtime THEN GatherPath.stat.birthtime
                               ELSE GatherPath.stat.mtime))>>

\* C14: when a backups folder is given and backups_tags is omitted, the
\* backup copies are read with the wildcard, also through cmd_set_dates: a
\* file with copies in the folder gets candidates labelled with them.
C14_OmittedBackupsTagsMeanWildcard ==
  [][(/\ BeganFile
      /\ args.backups_given /\ ~args.backups_tags.given
      /\ GlobBackups(backupDir, files[i + 1]) # <<>>) =>
       \A b \in 1..Len(GlobBackups(backupDir, files[i + 1])) :
         \E k \in 1..Len(candidates') :
           candidates'[k].prefix = BackupPrefix(GlobBackups(backupDir, files[i + 1])[b])]_vars

\* "YYYY:MM:DD HH:MM:SS" of the two datetimes a direct call is given.
ExifText(dt) ==
  IF dt = D1
  THEN <<"2", "0", "1", "9", ":", "1", "2", ":", "3", "1", " ",
         "2", "3", ":", "5", "9", ":", "5", "8">>
  ELSE <<"2", "0", "2", "0", ":", "0", "2", ":", "2", "9", " ",
         "1", "2", ":", "0", "0", ":", "0", "0">>

\* The delegate call the k-th destination selector stands for.
ExpectedCall(k) ==
  IF args.dest_tags[k] \in {"File:System:FileAccessDate", "File:System:FileModifyDate",
                            "File:System:FileInodeChangeDate", "File:System:CreatedDate"}
  THEN [fn |-> "apply_system_time", file |-> files[1].name, tag |-> args.dest_tags[k],
        dt |-> chosen_dt, dry_run |-> args.dry_run]
  ELSE [fn |-> "set_exif_tags", file |-> files[1].name,
        tags |-> <<[tag |-> args.dest_tags[k], val |-> ExifText(chosen_dt)]>>,
        dry_run |-> args.dry_run, update_systime |-> args.update_systime]

C16_WriteFailureNeverStopsTheBatch ==
  pc = "raised" => exc \notin {"OSError", "CalledProcessError"}

\* A destination on which a real run acts.
Acts(tag) ==
  \/ tag \notin ALL_FS_TAGS
  \/ tag \in {"File:System:FileModifyDate", "File:System:FileAccessDate"}
  \/ tag = "File:System:CreatedDate" /\ has_setfile

\* C17: a dry run reports, for every destination, the action a real run
\* would take, and touches no file: no os.utime, no exiftool, no SetFile.
C17_DryRunReportsAndMutatesNothing ==
  (args.dry_run /\ pc # "call") =>
    /\ pc = "returned"
    /\ [k \in 1..Len(effects) |-> effects[k].tag] = SelectSeq(args.dest_tags, Acts)
    /\ \A k \in 1..Len(effects) : effects[k].op = "print"

\* C18: a dry run never fails for a missing exiftool.
C18_DryRunNeverChecksTheTool ==
  (args.dry_run /\ pc # "call") => ~(pc = "raised" /\ exc = "RuntimeError")

\* C19: every file the loop leaves gets its own report line, APPLIED or
\* SKIPPED.
C19_EveryFileIsReported ==
  [][i' = i + 1 =>
       \E kind \in {"APPLIED", "SKIPPED"} : out' = Append(out, Line(kind, files[i + 1]))]_vars

\* C20: unless the operator quits, a run that is over has attempted every
\* file, one at a time in list order.
C20_EveryFileAttemptedUnlessQuit ==
  (pc \in {"done", "raised"} /\ exc # "SystemExit") => i = Len(files)

\* The search has a compare expression and has evaluated it for files[i],
\* whose metadata is exif.
Compared ==
  pc \in {"loop", "returned"} /\ i >= 1 /\ args.compare # None /\ args.compare.s # <<>>

\* The '|'-separated groups of the expression and the '&'-separated terms of
\* the g-th, blank pieces left out.
OrGroups == SelectSeq(SplitAt(args.compare.s, "|", 1, 1), LAMBDA t : Strip(t) # <<>>)
GroupTerms(g) ==
  LET F(ps) == [k \in 1..Len(ps) |-> Strip(ps[k])]
  IN F(SelectSeq(SplitAt(Strip(OrGroups[g]), "&", 1, 1), LAMBDA t : Strip(t) # <<>>))

\* The term has the form operand, operator, operand.
WellFormed(t) ==
  \E p \in 2..Len(t) : \E k \in 1..Len(CMP_OPS) :
    /\ p + Len(CMP_OPS[k]) <= Len(t)
    /\ SubSeq(t, p, p + Len(CMP_OPS[k]) - 1) = CMP_OPS[k]

\* The term is true of the metadata in exif.
TermTrue(t) == WellFormed(t) /\ eval_cmp_term(exif, t).res
GroupTrue(g) == \A k \in 1..Len(GroupTerms(g)) : TermTrue(GroupTerms(g)[k])

\* The terms of the g-th group up to its first false one.
UpToFalse(g) ==
  LET F(ts) ==
        IF \A k \in 1..Len(ts) : TermTrue(ts[k]) THEN ts
        ELSE SubSeq(ts, 1, CHOOSE k \in 1..Len(ts) :
                             ~TermTrue(ts[k]) /\ \A j \in 1..(k - 1) : TermTrue(ts[j]))
  IN F(GroupTerms(g))

\* The terms of the groups from the g-th up to the first true group.
RECURSIVE UpToTrue(_)
UpToTrue(g) ==
  IF g > Len(OrGroups) THEN <<>>
  ELSE UpToFalse(g) \o (IF GroupTrue(g) THEN <<>> ELSE UpToTrue(g + 1))

FileFound == \E k \in 1..Len(found) : found[k] = files[i].name

\* C21: a file matches iff at least one '|'-separated group has all of its
\* '&'-separated terms true, and the terms evaluated for it are those of each
\* group up to its first false term, group after group up to the first true
\* group.
C21_OrOfAndGroups ==
  Compared =>
    /\ FileFound <=> \E g \in 1..Len(OrGroups) : GroupTrue(g)
    /\ [k \in 1..Len(evaluated) |-> evaluated[k].term] = UpToTrue(1)

\* A file matched on the first of its two groups, of two terms each: the
\* second group was not evaluated.
C21_Witness ==
  /\ Compared /\ pc = "returned" /\ FileFound
  /\ Len(OrGroups) = 2 /\ Len(GroupTerms(1)) = 2 /\ Len(GroupTerms(2)) = 2
  /\ Len(evaluated) = 2

\* C22: a malformed term is false, so a file whose every group holds one does
\* not match; no exception leaves search_files and the search goes on to the
\* last file.
C22_MalformedTermIsNoMatch ==
  /\ pc \in {"call", "loop", "returned"} /\ exc = "none"
  /\ pc = "returned" => i = Len(files)
  /\ \A k \in 1..Len(evaluated) :
       ~WellFormed(evaluated[k].term) => evaluated[k].exc /\ ~evaluated[k].res
  /\ (Compared /\ \A g \in 1..Len(OrGroups) : \E k \in 1..Len(GroupTerms(g)) :
                      ~WellFormed(GroupTerms(g)[k]))
       => ~FileFound

\* The search returned having met a malformed term on its last file of
\* several.
C22_Witness ==
  /\ pc = "returned" /\ i = Len(files) /\ Len(files) >= 2
  /\ \E k \in 1..Len(evaluated) : evaluated[k].exc /\ ~WellFormed(evaluated[k].term)

\* The keys of exif that contain the operand, case ignored.
KeysWith(operand) ==
  {k \in 1..Len(exif) : Contains(Lower(exif[k].tag), Lower(operand))}

FirstKeyWith(operand) == CHOOSE k \in KeysWith(operand) : \A j \in KeysWith(operand) : k <= j

\* The value as the string the comparison uses.
Text(v) == IF v.t = "int" THEN Str(Decimal(v.n)) ELSE v

\* The operand took the value of the first key containing it, and is a
\* literal only if no key contains it.
AsStated(raw, operand) ==
  IF KeysWith(operand) = {} THEN raw = Str(operand)
  ELSE raw = Text(exif[FirstKeyWith(operand)].val)

\* The same, the operand being a literal also when that first key's value is
\* null.
UnlessNull(raw, operand) ==
  IF KeysWith(operand) = {} \/ exif[FirstKeyWith(operand)].val = None
  THEN raw = Str(operand)
  ELSE raw = Text(exif[FirstKeyWith(operand)].val)

KindOf(v) ==
  IF parse_date(v) # None THEN "datetime"
  ELSE IF IsFloat(v.s) THEN "number"
  ELSE "text"

\* The operator raises on the two coerced values: an ordering of values of two
\* kinds, or of a naive and an aware datetime.
Incomparable(e) ==
  /\ CMP_RE(e.term).op \in {<<"<">>, <<">">>, <<"<", "=">>, <<">", "=">>}
  /\ \/ KindOf(e.a_val_raw) # KindOf(e.b_val_raw)
     \/ /\ KindOf(e.a_val_raw) = "datetime"
        /\ parse_date(e.a_val_raw).aware # parse_date(e.b_val_raw).aware

\* The operator on two strings.
OnStrings(op, a, b) ==
  CASE op = <<"<">> -> StrLt(a, b)
    [] op = <<">">> -> StrLt(b, a)
    [] op = <<"<", "=">> -> StrLe(a, b)
    [] op = <<">", "=">> -> StrLe(b, a)
    [] op = <<"=", "=">> -> a = b
    [] OTHER -> a # b

\* C24: where the operator raises on the coerced values, the term's result is
\* the operator on the two raw resolved strings; no exception leaves the
\* evaluation.
C24_RawStringsWhenCoercedRaises ==
  /\ pc \in {"call", "loop", "returned"} /\ exc = "none"
  /\ \A k \in 1..Len(evaluated) :
       WellFormed(evaluated[k].term) =>
         /\ ~evaluated[k].exc
         /\ evaluated[k].fell_back <=> Incomparable(evaluated[k])
         /\ evaluated[k].fell_back =>
              evaluated[k].res = OnStrings(CMP_RE(evaluated[k].term).op,
                                           evaluated[k].a_val_raw.s, evaluated[k].b_val_raw.s)

\* A datetime against a number, and a naive against an aware datetime, under
\* an ordering: the term was true by its raw strings.
C24_Witness ==
  /\ Compared
  /\ \E k \in 1..Len(evaluated) :
       /\ evaluated[k].fell_back /\ evaluated[k].res
       /\ KindOf(evaluated[k].a_val_raw) = "datetime"
       /\ KindOf(evaluated[k].b_val_raw) = "number"
  /\ \E k \in 1..Len(evaluated) :
       /\ evaluated[k].fell_back
       /\ KindOf(evaluated[k].a_val_raw) = "datetime"
       /\ KindOf(evaluated[k].b_val_raw) = "datetime"

\* The well-formed terms of the expression in textual order, and their
\* operands, left before right.
AllTerms ==
  IF args.compare = None \/ args.compare.s = <<>> THEN <<>>
  ELSE SelectSeq(TermsFrom(Pieces(args.compare.s, "|"), 1), WellFormed)

Operands ==
  [k \in 1..(2 * Len(AllTerms)) |->
     IF k % 2 = 1 THEN Strip(CMP_RE(AllTerms[(k + 1) \div 2]).a)
     ELSE Strip(CMP_RE(AllTerms[k \div 2]).b)]

FirstAt(seq, x) == CHOOSE k \in 1..Len(seq) : seq[k] = x /\ \A j \in 1..(k - 1) : seq[j] # x

\* names holds the strings of operands, each once, in the order of their first
\* occurrences.
OnceInFirstSeenOrder(names, operands) ==
  /\ \A k \in 1..Len(operands) : \E j \in 1..Len(names) : names[j] = operands[k]
  /\ \A j \in 1..Len(names) : \E k \in 1..Len(operands) : names[j] = operands[k]
  /\ \A j, k \in 1..Len(names) :
       j < k => /\ names[j] # names[k]
                /\ FirstAt(operands, names[j]) < FirstAt(operands, names[k])

\* C25: parse_compare_tag_names returns the operands of the well-formed terms,
\* each once, in the order of their first occurrences; nothing for an absent
\* or empty expression.
C25_OperandsOnceInFirstSeenOrder ==
  pc # "call" =>
    /\ OnceInFirstSeenOrder(requested_tag_names, Operands)
    /\ (args.compare = None \/ args.compare.s = <<>>) => requested_tag_names = <<>>

\* A term, then after '|' a malformed term and after '&' the first term
\* again: its two operands, once.
C25_Witness ==
  /\ pc # "call" /\ args.compare # None /\ args.compare.s # <<>>
  /\ Len(OrGroups) = 2
  /\ Len(AllTerms) = 2 /\ Len(TermsFrom(Pieces(args.compare.s, "|"), 1)) = 3
  /\ Len(requested_tag_names) = 2

\* The expression has a group of '&' and blanks only.
AmpersandGroup ==
  \E g \in 1..Len(OrGroups) :
    /\ \E k \in 1..Len(OrGroups[g]) : OrGroups[g][k] = "&"
    /\ \A k \in 1..Len(OrGroups[g]) : OrGroups[g][k] \in {"&", " "}

\* The expression is made of '|' and blanks only.
OnlyBars == \A k \in 1..Len(args.compare.s) : args.compare.s[k] \in {"|", " "}

\* C30: empty pieces are dropped before evaluation; a group of '&' separators
\* without a term makes every file match, and an expression without a
\* non-blank group matches no file.
C30_EmptyPiecesDropped ==
  /\ \A k \in 1..Len(evaluated) : evaluated[k].term # <<>>
  /\ Compared =>
       /\ AmpersandGroup => found = [k \in 1..i |-> files[k].name]
       /\ OnlyBars => found = <<>> /\ evaluated = <<>>

\* A false term, then a group of '&' only: every file matched.
C30_Witness ==
  /\ Compared /\ pc = "returned" /\ AmpersandGroup
  /\ Len(OrGroups) = 2
  /\ evaluated # <<>> /\ ~evaluated[1].res
  /\ Len(found) = Len(files)

\* One to six decimal digits.
ShortDigits(s) == Len(s) \in 1..6 /\ \A k \in 1..Len(s) : IsDecimal(s[k])

\* C26: parse_date never raises and returns a datetime or None; it returns
\* None for a value that is no string, for the empty string, and for a string
\* that after trimming is one to six digits.
C26_ParseDateTotal ==
  /\ pc # "raised"
  /\ pc = "parsed" =>
       /\ exc = "none"
       /\ result = None \/ (IsDatetime(result) /\ ValidFields(result))
       /\ (arg.t # "str" \/ arg.s = <<>> \/ ShortDigits(Strip(arg.s))) => result = None

\* parse_date returned None for six digits between blanks that dateutil reads
\* as a date.
C26_Witness ==
  /\ pc = "parsed"
  /\ arg.t = "str"
  /\ arg.s # Strip(arg.s)
  /\ Len(Strip(arg.s)) = 6
  /\ ShortDigits(Strip(arg.s))
  /\ DateutilParse(Strip(arg.s)) # None
  /\ result = None

\* The name, without its extension, is eight digits, "-" or "_", and six
\* digits.
BareForm(name) ==
  /\ Len(Base(name)) = 15
  /\ \A k \in (1..8) \cup (10..15) : IsDecimal(name[k])
  /\ name[9] \in {"-", "_"}

\* The date and the time of day a name of the bare form spells.
Spelled(name) ==
  MkDt(ToInt(SubSeq(name, 1, 4)), ToInt(SubSeq(name, 5, 6)), ToInt(SubSeq(name, 7, 8)),
       ToInt(SubSeq(name, 10, 11)), ToInt(SubSeq(name, 12, 13)), ToInt(SubSeq(name, 14, 15)))

\* The k-th pair is the first whose regular expression matches the name and
\* whose groups parse.
FirstParsing(name, k) ==
  /\ TryPattern(name, FILENAME_PATTERNS[k]) # None
  /\ \A j \in 1..(k - 1) : TryPattern(name, FILENAME_PATTERNS[j]) = None

\* C27 (first part): infer_from_filename returns what the first pair in list
\* order gives whose regular expression matches and whose groups parse.
C27_FirstParsingPair ==
  (pc = "inferred" /\ arg.t = "str") =>
    \A k \in 1..Len(FILENAME_PATTERNS) :
      FirstParsing(arg.s, k) => result = TryPattern(arg.s, FILENAME_PATTERNS[k])

\* C27: infer_from_filename returns what the first parsing pair gives, and a
\* name of the bare form YYYYMMDD-HHMMSS or YYYYMMDD_HHMMSS with a valid date
\* and time yields the datetime with that date and that time of day.
C27_BareFormKeepsTimeOfDay ==
  (pc = "inferred" /\ arg.t = "str") =>
    /\ \A k \in 1..Len(FILENAME_PATTERNS) :
         FirstParsing(arg.s, k) => result = TryPattern(arg.s, FILENAME_PATTERNS[k])
    /\ (BareForm(arg.s) /\ ValidFields(Spelled(arg.s))) => result = Spelled(arg.s)

\* C27 (underscore form): the name YYYYMMDD_HHMMSS yields its date and time.
C27_UnderscoreFormKeepsTimeOfDay ==
  (pc = "inferred" /\ arg.t = "str" /\ BareForm(arg.s) /\ arg.s[9] = "_"
   /\ ValidFields(Spelled(arg.s))) => result = Spelled(arg.s)

\* The filesystem selectors the --dest-tags help and gather_candidates'
\* docstring name as supported.
DOCUMENTED_FS_TAGS ==
  {"File:System:FileModifyDate", "File:System:FileInodeChangeDate",
   "File:System:FileCreateDate"}

\* C28: apply_destinations hands every documented File:System selector to
\* apply_system_time, as a filesystem attribute.
C28_DocumentedSelectorsAreFilesystemAttributes ==
  pc # "call" =>
    \A k \in 1..Len(calls) :
      args.dest_tags[k] \in DOCUMENTED_FS_TAGS => calls[k].fn = "apply_system_time"

\* C28 (sources): where the file has a creation time, gather_candidates gives
\* a candidate for the documented selector File:System:FileCreateDate.
C28_CreateDateSelectorGivesCandidate ==
  (pc = "returned" /\ hasBirthtime /\ args.src_tags # <<>>
   /\ args.src_tags[1] = "File:System:FileCreateDate") =>
    \E k \in 1..Len(candidates) :
      /\ candidates[k].tag = "File:System:FileCreateDate"
      /\ candidates[k].dt = FromTimestamp(files[1].stat.birthtime)

\* C29: what cmd_set_dates does with the chooser's result: 'next' moves to
\* the next file, 'previous' to the one before but never before the first,
\* None reports the file as SKIPPED and moves on, 'quit' ends the command
\* with SystemExit; in none of the four is apply_destinations called.
C29_NavigationResults ==
  [][ (pc = "loop" /\ arg'.k = arg.k + 1 /\ Reply(arg).t # "datetime") =>
        /\ chosen' = Reply(arg)
        /\ effects' = effects
        /\ chosen_dt' = chosen_dt
        /\ Reply(arg) = ChosenStr("next") =>
              pc' = "loop" /\ i' = i + 1 /\ out' = out
        /\ Reply(arg) = ChosenStr("previous") =>
              pc' = "loop" /\ i' = (IF i >= 1 THEN i - 1 ELSE 0) /\ out' = out
        /\ Reply(arg) = ChosenNone =>
              /\ pc' = "loop" /\ i' = i + 1
              /\ out' = out \o << [line |-> "SKIPPED", file |-> files[i + 1].name] >>
        /\ Reply(arg) = ChosenStr("quit") =>
              pc' = "raised" /\ exc' = "SystemExit" /\ out' = out ]_vars

\* The stub answered 'next', 'previous' and None: the first file was left,
\* come back to and reported as skipped, and nothing was written.
C29_Witness ==
  /\ pc = "loop"
  /\ arg.s = <<ChosenStr("next"), ChosenStr("previous"), ChosenNone>>
  /\ arg.k = 3
  /\ i = 1
  /\ out = << [line |-> "SKIPPED", file |-> files[1].name] >>
  /\ effects = <<>>
====
